---- MODULE Spec2Model ----
(***************************************************************************)
(* Model of the context-retrieval orchestration of miow-context-master:    *)
(* the router agent (crates/miow-agent/src/router.rs), the prompt registry *)
(* (prompt_registry.rs) and the worker agent (workers.rs).                 *)
(*                                                                         *)
(* Text is modelled as a sequence of lexical tokens: a whitespace run, a   *)
(* run of ordinary characters, the literal ```json, the literal ``` and a  *)
(* maximal run of characters that forms one JSON value.  The string        *)
(* functions of the code (trim, trim_start_matches, trim_end_matches,      *)
(* serde_json::from_str, format!) are operators over such sequences.       *)
(***************************************************************************)
EXTENDS Integers, Sequences, FiniteSets, TLC

\* ------------------------------------------------------------------ bounds
\* longest batch of worker ids handed directly to build_execution_plan
MaxBatch == 3
\* most workers in a plan authored by the planning reply
MaxPlanWorkers == 2
\* most elements in the JSON array of a worker reply
MaxReplyItems == 2

\* ------------------------------------------------------------------ text
Ws == [k |-> "ws"]
Ch(c) == [k |-> "ch", c |-> c]
FenceJson == [k |-> "fence_json"]
Fence == [k |-> "fence"]
Json(v) == [k |-> "json", v |-> v]

\* str::trim_start / trim_end / trim: drop the whitespace at the ends
TrimStart(s) ==
    IF \A i \in 1..Len(s) : s[i] = Ws THEN <<>>
    ELSE LET i == CHOOSE i \in 1..Len(s) :
                      s[i] # Ws /\ \A j \in 1..(i - 1) : s[j] = Ws
         IN  SubSeq(s, i, Len(s))

TrimEnd(s) ==
    IF \A i \in 1..Len(s) : s[i] = Ws THEN <<>>
    ELSE LET i == CHOOSE i \in 1..Len(s) :
                      s[i] # Ws /\ \A j \in (i + 1)..Len(s) : s[j] = Ws
         IN  SubSeq(s, 1, i)

Trim(s) == TrimEnd(TrimStart(s))

\* str::trim_start_matches("```json"): drop every leading repetition
RECURSIVE TrimStartMatchesFenceJson(_)
TrimStartMatchesFenceJson(s) ==
    IF s # <<>> /\ Head(s) = FenceJson
    THEN TrimStartMatchesFenceJson(Tail(s))
    ELSE s

\* str::trim_start_matches("```"): drop every leading repetition; the first
\* three characters of a leading ```json match as well and leave "json"
RECURSIVE TrimStartMatchesFence(_)
TrimStartMatchesFence(s) ==
    IF s = <<>> THEN s
    ELSE IF Head(s) = Fence THEN TrimStartMatchesFence(Tail(s))
    ELSE IF Head(s) = FenceJson THEN <<Ch("json")>> \o Tail(s)
    ELSE s

\* str::trim_end_matches("```")
RECURSIVE TrimEndMatchesFence(_)
TrimEndMatchesFence(s) ==
    IF s # <<>> /\ s[Len(s)] = Fence
    THEN TrimEndMatchesFence(SubSeq(s, 1, Len(s) - 1))
    ELSE s

\* the fence stripping of plan() and classify_task
StripFences(content) ==
    Trim(TrimEndMatchesFence(TrimStartMatchesFence(
             TrimStartMatchesFenceJson(Trim(content)))))

\* ------------------------------------------------------------------ JSON
JNull == [jt |-> "null"]
JNum(n) == [jt |-> "number", n |-> n]
\* a JSON string holding an identifier (compared as a whole)
JStr(s) == [jt |-> "string", s |-> s]
\* a JSON string holding text (trimmed, tested for emptiness)
JText(t) == [jt |-> "string", txt |-> t]
JArr(items) == [jt |-> "array", items |-> items]
JObj(m) == [jt |-> "object", m |-> m]

ParseOk(v) == [ok |-> TRUE, v |-> v]
ParseErr == [ok |-> FALSE]

\* serde_json::from_str::<Value>: one JSON value, whitespace allowed around
FromStrValue(s) ==
    LET t == Trim(s)
    IN  IF Len(t) = 1 /\ t[1].k = "json" THEN ParseOk(t[1].v) ELSE ParseErr

\* Value::get(key): a member of an object, None for everything else
HasMember(j, key) == j.jt = "object" /\ key \in DOMAIN j.m

JBool(b) == [jt |-> "bool", b |-> b]

\* Value::as_str
IsJString(j) == j.jt = "string"

\* a reply body that is not JSON at all
NotJson == [jt |-> "none"]

\* the tokens of a reply body
BodyTokens(payload) ==
    IF payload = NotJson THEN <<Ch("x")>> ELSE <<Json(payload)>>

\* the ways a model wraps the body of its reply
Wrap(wrapper, body) ==
    CASE wrapper = "bare" -> body
      [] wrapper = "padded" -> <<Ws>> \o body \o <<Ws>>
      [] wrapper = "fenced_json" -> <<FenceJson, Ws>> \o body \o <<Ws, Fence>>
      [] wrapper = "fenced" -> <<Fence, Ws>> \o body \o <<Ws, Fence>>
      [] wrapper = "prose_prefixed" -> <<Ch("x"), Ws>> \o body

\* the wrappers that leave the reply a JSON document, fenced or not
JsonWrappers == {"bare", "padded", "fenced_json", "fenced"}

\* Option<T>
None == <<>>
Some(x) == <<x>>

\* deserialization of a Vec<T> from the deserialized elements: every
\* element must deserialize
DeVec(results) ==
    IF \A i \in 1..Len(results) : results[i].ok
    THEN ParseOk([i \in 1..Len(results) |-> results[i].v])
    ELSE ParseErr

\* ------------------------------------------------------------------ registry
\* A registry maps a key to its SpecializedPrompt; of a prompt the scheduler
\* reads only `dependencies`, and only by membership (iter().all(contains)).
PromptOf(deps) == [dependencies |-> deps]

\* PromptRegistry::new(): the fifteen prompts of initialize_prompts
PromptRegistryNew ==
    [ stack_detector        |-> PromptOf({}),
      task_classifier       |-> PromptOf({}),
      frontend_scanner      |-> PromptOf({"stack_detector"}),
      backend_scanner       |-> PromptOf({"stack_detector"}),
      data_scanner          |-> PromptOf({"stack_detector"}),
      auth_scanner          |-> PromptOf({}),
      api_scanner           |-> PromptOf({"stack_detector"}),
      test_scanner          |-> PromptOf({"frontend_scanner", "backend_scanner"}),
      error_analyzer        |-> PromptOf({}),
      config_scanner        |-> PromptOf({}),
      dependency_analyzer   |-> PromptOf({"frontend_scanner", "backend_scanner"}),
      security_auditor      |-> PromptOf({"auth_scanner"}),
      performance_analyzer  |-> PromptOf({"backend_scanner"}),
      documentation_scanner |-> PromptOf({}),
      refactor_advisor      |-> PromptOf({"frontend_scanner", "backend_scanner"}) ]

\* PromptRegistry::get_prompt
HasPrompt(reg, key) == key \in DOMAIN reg

\* PromptRegistry::get_recommended_prompts
GetRecommendedPrompts(task_type) ==
    CASE task_type = "feature" ->
           <<"frontend_scanner", "backend_scanner", "data_scanner", "api_scanner">>
      [] task_type = "bugfix" ->
           <<"error_analyzer", "test_scanner", "frontend_scanner", "backend_scanner">>
      [] task_type = "refactor" ->
           <<"refactor_advisor", "dependency_analyzer", "performance_analyzer">>
      [] task_type = "explanation" ->
           <<"documentation_scanner", "frontend_scanner", "data_scanner">>
      [] task_type = "security" ->
           <<"security_auditor", "auth_scanner", "config_scanner">>
      [] OTHER ->
           <<"stack_detector", "frontend_scanner", "backend_scanner">>

\* keys of the fixture registries handed to build_execution_plan directly
FixtureIds == {"A", "B", "C"}

\* every registry over a subset of FixtureIds, dependencies taken from
\* FixtureIds (cycles, self-dependencies and unregistered dependencies included)
FixtureRegistries ==
    UNION { [ks -> {PromptOf(d) : d \in SUBSET FixtureIds}] : ks \in SUBSET FixtureIds }

\* sequences over S of length at most n
RECURSIVE SeqsUpTo(_, _)
SeqsUpTo(S, n) ==
    IF n = 0 THEN {<<>>}
    ELSE LET shorter == SeqsUpTo(S, n - 1)
         IN  shorter \cup {Append(s, x) : s \in shorter, x \in S}

FixtureIdOrder == <<"A", "B", "C">>

\* the batches of fixture ids, duplicates included, up to the naming of the
\* ids: the ids first occur in the order A, B, C (the fixture registries
\* are closed under renaming, so every other batch is one of these renamed)
FixtureBatches ==
    {s \in SeqsUpTo(FixtureIds, MaxBatch) :
        \A i \in 1..Len(s) : \A k \in 1..Len(FixtureIdOrder) :
            s[i] = FixtureIdOrder[k] =>
                \A h \in 1..(k - 1) : \E j \in 1..(i - 1) : s[j] = FixtureIdOrder[h]}

\* ------------------------------------------------------------------ search plan
\* deserialization of a String holding text
DeText(j) ==
    IF IsJString(j) /\ "txt" \in DOMAIN j THEN ParseOk(j.txt) ELSE ParseErr

\* deserialization of a String holding an identifier
DeIdent(j) ==
    IF IsJString(j) /\ "s" \in DOMAIN j THEN ParseOk(j.s) ELSE ParseErr

\* router.rs:11-21  #[derive(Deserialize)] struct SearchQuery: `query` is
\* required, `kind` and `target_paths` default
DeSearchQuery(j) ==
    IF j.jt # "object" \/ ~HasMember(j, "query") THEN ParseErr
    ELSE LET query == DeText(j.m.query)
             kind == IF ~HasMember(j, "kind") \/ j.m.kind = JNull THEN ParseOk(None)
                     ELSE IF DeIdent(j.m.kind).ok THEN ParseOk(Some(j.m.kind.s))
                     ELSE ParseErr
             paths == IF ~HasMember(j, "target_paths") THEN ParseOk(<<>>)
                      ELSE IF j.m.target_paths.jt = "array"
                      THEN DeVec([i \in 1..Len(j.m.target_paths.items) |->
                                     DeIdent(j.m.target_paths.items[i])])
                      ELSE ParseErr
         IN  IF query.ok /\ kind.ok /\ paths.ok
             THEN ParseOk([query |-> query.v, kind |-> kind.v, target_paths |-> paths.v])
             ELSE ParseErr

\* deserialization of a Vec<SearchQuery> member that defaults to empty
DeQueries(j, key) ==
    IF ~HasMember(j, key) THEN ParseOk(<<>>)
    ELSE IF j.m[key].jt = "array" THEN DeVec([i \in 1..Len(j.m[key].items) |-> DeSearchQuery(j.m[key].items[i])])
    ELSE ParseErr

\* router.rs:24-33  struct WorkerPlan: `worker_id` and `description` are
\* required, `queries` defaults
DeWorkerPlan(j) ==
    IF j.jt # "object" \/ ~HasMember(j, "worker_id") \/ ~HasMember(j, "description")
    THEN ParseErr
    ELSE LET id == DeIdent(j.m.worker_id)
             description == DeIdent(j.m.description)
             queries == DeQueries(j, "queries")
         IN  IF id.ok /\ description.ok /\ queries.ok
             THEN ParseOk([worker_id |-> id.v, description |-> description.v,
                           queries |-> queries.v])
             ELSE ParseErr

\* router.rs:36-50  struct SearchPlan read from a JSON object: every member
\* defaults (the replies drawn here are objects, null or not JSON)
DeSearchPlan(j) ==
    IF j.jt # "object" THEN ParseErr
    ELSE LET intent == IF ~HasMember(j, "global_intent") THEN ParseOk(<<>>)
                       ELSE DeText(j.m.global_intent)
             queries == DeQueries(j, "search_queries")
             workers == IF ~HasMember(j, "workers") THEN ParseOk(<<>>)
                        ELSE IF j.m.workers.jt = "array"
                        THEN DeVec([i \in 1..Len(j.m.workers.items) |->
                                       DeWorkerPlan(j.m.workers.items[i])])
                        ELSE ParseErr
             schedule == IF ~HasMember(j, "execution_plan") THEN ParseOk(<<>>)
                         ELSE IF j.m.execution_plan.jt = "array"
                         THEN DeVec([i \in 1..Len(j.m.execution_plan.items) |->
                                        DeIdent(j.m.execution_plan.items[i])])
                         ELSE ParseErr
         IN  IF intent.ok /\ queries.ok /\ workers.ok /\ schedule.ok
             THEN ParseOk([global_intent |-> intent.v, search_queries |-> queries.v,
                           workers |-> workers.v, execution_plan |-> schedule.v])
             ELSE ParseErr

\* router.rs:188-189  serde_json::from_str::<SearchPlan>(clean)
FromStrSearchPlan(clean) ==
    LET r == FromStrValue(clean)
    IN  IF r.ok THEN DeSearchPlan(r.v) ELSE ParseErr

\* router.rs:71-75  SearchPlan::is_empty
IsEmptyPlan(p) ==
    /\ Trim(p.global_intent) = <<>>
    /\ p.search_queries = <<>>
    /\ p.workers = <<>>

\* the query strings of a list of SearchQuery
QueryTexts(qs) == [i \in 1..Len(qs) |-> qs[i].query]

RECURSIVE Flatten(_)
Flatten(ss) == IF ss = <<>> THEN <<>> ELSE Head(ss) \o Flatten(Tail(ss))

\* every query of the plan, general ones first, then worker by worker
PlanQueryTexts(p) ==
    QueryTexts(p.search_queries)
        \o Flatten([i \in 1..Len(p.workers) |-> QueryTexts(p.workers[i].queries)])

\* a slip in the filter: blank queries are kept
KeepQuery_All(q) == TRUE

\* router.rs:57 and 63: the filter `!q.query.trim().is_empty()`
KeepQuery(q) == Trim(q) # <<>>

\* router.rs:54-69  SearchPlan::all_query_strings
AllQueryStrings(p) ==
    LET kept == SelectSeq(PlanQueryTexts(p), KeepQuery)
    IN  [i \in 1..Len(kept) |-> Trim(kept[i])]

\* a slip in the fallback: every recommended worker is taken
TakeRecommended_All(recommended) == recommended

\* router.rs:315  recommended_workers.iter().take(3)
TakeRecommended(recommended) ==
    SubSeq(recommended, 1, IF Len(recommended) < 3 THEN Len(recommended) ELSE 3)

\* router.rs:320-324 and 331-335: the generic query of the fallback plan
FallbackQuery(user_prompt) ==
    [query |-> user_prompt, kind |-> Some("any"), target_paths |-> <<>>]

\* router.rs:311-339  create_fallback_plan; the description of a worker is
\* the registry's, named here by its key
CreateFallbackPlan(reg, user_prompt, recommended) ==
    LET taken == SelectSeq(TakeRecommended(recommended),
                           LAMBDA key : HasPrompt(reg, key))
    IN  [global_intent |-> <<Ch("fallback_plan")>>,
         search_queries |-> <<FallbackQuery(user_prompt)>>,
         workers |-> [i \in 1..Len(taken) |->
                         [worker_id |-> taken[i],
                          description |-> taken[i],
                          queries |-> <<FallbackQuery(user_prompt)>>]],
         execution_plan |-> <<>>]

\* router.rs:194 and 201: the worker ids of a plan, in order
WorkerIdsOf(p) == [i \in 1..Len(p.workers) |-> p.workers[i].worker_id]

\* a slip in classify_task: the reply is decoded with its fences on
ClassifyTask_NoStrip(content) ==
    LET r == FromStrValue(content)
    IN  IF r.ok
        THEN IF HasMember(r.v, "task_type") /\ IsJString(r.v.m.task_type)
             THEN r.v.m.task_type.s
             ELSE "feature"
        ELSE "feature"

\* router.rs:280-298  classify_task, from the reply's content on
ClassifyTask(content) ==
    LET r == FromStrValue(StripFences(content))
    IN  IF r.ok
        THEN IF HasMember(r.v, "task_type") /\ IsJString(r.v.m.task_type)
             THEN r.v.m.task_type.s
             ELSE "feature"
        ELSE "feature"

\* router.rs:181-205  plan(), from the planning reply's content on: the plan
\* before its execution_plan is computed, and the arm of the match taken
ChoosePlan(reg, user_prompt, recommended, content) ==
    LET parsed == FromStrSearchPlan(StripFences(content))
    IN  IF parsed.ok /\ ~IsEmptyPlan(parsed.v)
        THEN [arm |-> "authored", plan |-> parsed.v]
        ELSE [arm |-> "fallback",
              plan |-> CreateFallbackPlan(reg, user_prompt, recommended)]

\* ------------------------------------------------------------------ worker reply
\* a slip in the precedence: the second-named member is looked up first
GetOrElse_Swapped(obj, a, b) ==
    IF b \in DOMAIN obj THEN Some(obj[b])
    ELSE IF a \in DOMAIN obj THEN Some(obj[a])
    ELSE None

\* obj.get(a).or_else(|| obj.get(b))
GetOrElse(obj, a, b) ==
    IF a \in DOMAIN obj THEN Some(obj[a])
    ELSE IF b \in DOMAIN obj THEN Some(obj[b])
    ELSE None

\* .and_then(|v| v.as_str()).unwrap_or(default), for a member holding text
TextOr(member, default) ==
    IF member # None /\ IsJString(member[1]) THEN member[1].txt ELSE default

\* .and_then(|v| v.as_str()).unwrap_or(default), for a member holding an
\* identifier; a string is the sequence of the pieces it was formatted from
IdentOr(member, default) ==
    IF member # None /\ IsJString(member[1]) THEN <<member[1].s>> ELSE <<default>>

\* workers.rs:110  confidence: 0.8, in tenths
WorkerConfidenceTenths == 8

\* workers.rs:127-154: the CodeChunk of one object of the array, the n-th chunk
ChunkOfObject(prompt_key, obj, n) ==
    [id |-> <<prompt_key, "-", ToString(n)>>,
     content |-> TextOr(GetOrElse(obj, "content", "definition"), <<>>),
     file_path |-> IdentOr(GetOrElse(obj, "file_path", "path"), ""),
     language |-> IdentOr(GetOrElse(obj, "language", "language"), "unknown"),
     start_line |-> 0,
     end_line |-> 0,
     kind |-> IdentOr(GetOrElse(obj, "kind", "type"), "unknown"),
     metadata |-> JObj([worker |-> JStr(prompt_key),
                        description |-> JStr(IdentOr(GetOrElse(obj, "description",
                                                              "description"), "")[1])])]

\* workers.rs:124-158: the chunks of the array's objects; other elements are skipped
RECURSIVE ChunksOfArray(_, _, _)
ChunksOfArray(prompt_key, items, chunks) ==
    IF items = <<>> THEN chunks
    ELSE IF Head(items).jt = "object"
    THEN ChunksOfArray(prompt_key, Tail(items),
                       Append(chunks, ChunkOfObject(prompt_key, Head(items).m, Len(chunks))))
    ELSE ChunksOfArray(prompt_key, Tail(items), chunks)

\* a slip in the fallback: the reply is trimmed before it is wrapped
FallbackChunk_Trimmed(prompt_key, response) ==
    [id |-> <<prompt_key, "-fallback">>,
     content |-> Trim(response),
     file_path |-> <<prompt_key, "_analysis.txt">>,
     language |-> <<"text">>,
     start_line |-> 0,
     end_line |-> 0,
     kind |-> <<"analysis">>,
     metadata |-> JObj([worker |-> JStr(prompt_key), fallback |-> JBool(TRUE)])]

\* workers.rs:163-175: the single chunk wrapping the raw reply
FallbackChunk(prompt_key, response) ==
    [id |-> <<prompt_key, "-fallback">>,
     content |-> response,
     file_path |-> <<prompt_key, "_analysis.txt">>,
     language |-> <<"text">>,
     start_line |-> 0,
     end_line |-> 0,
     kind |-> <<"analysis">>,
     metadata |-> JObj([worker |-> JStr(prompt_key), fallback |-> JBool(TRUE)])]

\* workers.rs:117-176  parse_llm_response: the reply is decoded as it came
ParseLlmResponse(prompt_key, response) ==
    LET r == FromStrValue(response)
    IN  IF r.ok /\ r.v.jt = "array"
        THEN ChunksOfArray(prompt_key, r.v.items, <<>>)
        ELSE <<FallbackChunk(prompt_key, response)>>

\* workers.rs:106-111: the WorkerResult of a reply
WorkerResultOf(prompt_key, response) ==
    [worker_id |-> prompt_key,
     chunks |-> ParseLlmResponse(prompt_key, response),
     summary |-> <<"Executed ", prompt_key, " worker">>,
     confidence |-> WorkerConfidenceTenths]

\* ------------------------------------------------------------------ inputs
\* the user tasks: empty, blank and not blank
UserPrompts == {<<>>, <<Ws>>, <<Ch("a")>>}

ReplyWrappers == {"bare", "padded", "fenced_json", "fenced", "prose_prefixed"}

\* the task types a classification reply names: the five of the
\* recommendation table and one outside it
TaskTypes == {"feature", "bugfix", "refactor", "explanation", "security", "chore"}

\* the bodies of a classification reply
ClassifyPayloads ==
    {NotJson, JNull, JArr(<<>>), JObj(<<>>), JObj([task_type |-> JNum(1)])}
        \cup {JObj([task_type |-> JStr(t)]) : t \in TaskTypes}

\* a JSON object with the members of ms that are present (Some)
ObjOf(names, ms) ==
    JObj([n \in {x \in names : ms[x] # None} |-> ms[n][1]])

QueryObj(text) == JObj([query |-> JText(text)])

\* the worker ids a planning reply names; the last is in no registry
PlanWorkerIds == {"stack_detector", "frontend_scanner", "ghost_worker"}

\* a worker of a planning reply: stack_detector comes without queries,
\* frontend_scanner with a query, ghost_worker with an empty query
WorkerObj(id) ==
    CASE id = "stack_detector" ->
           JObj([worker_id |-> JStr(id), description |-> JStr("focus")])
      [] id = "frontend_scanner" ->
           JObj([worker_id |-> JStr(id), description |-> JStr("focus"),
                 queries |-> JArr(<<QueryObj(<<Ch("a")>>)>>)])
      [] OTHER ->
           JObj([worker_id |-> JStr(id), description |-> JStr("focus"),
                 queries |-> JArr(<<QueryObj(<<>>)>>)])

\* the `workers` member of a planning reply: absent, a list of well-formed
\* workers, or one worker without an id
PlanWorkerMembers ==
    {None, Some(JArr(<<JObj([description |-> JStr("focus")])>>))}
        \cup {Some(JArr([i \in 1..Len(ids) |-> WorkerObj(ids[i])])) :
                 ids \in SeqsUpTo(PlanWorkerIds, MaxPlanWorkers) \ {<<>>}}

PlanIntentMembers == {None, Some(JText(<<Ws>>)), Some(JText(<<Ch("intent")>>))}

PlanQueryMembers ==
    {None, Some(JArr(<<QueryObj(<<>>)>>)), Some(JArr(<<QueryObj(<<Ws, Ch("a")>>)>>)),
     Some(JArr(<<JObj(<<>>)>>))}

\* the bodies of a planning reply
PlanPayloads ==
    {NotJson, JNull}
        \cup {ObjOf({"global_intent", "search_queries", "workers"},
                    [global_intent |-> i, search_queries |-> q, workers |-> w]) :
                 i \in PlanIntentMembers, q \in PlanQueryMembers, w \in PlanWorkerMembers}
        \cup {ObjOf({"global_intent", "execution_plan"},
                    [global_intent |-> Some(JText(<<Ch("intent")>>)),
                     execution_plan |-> Some(JArr(<<JStr("ghost_worker")>>))])}

PlanWrappers == {"bare", "fenced_json", "prose_prefixed"}

\* a reply of the text-generation service
Reply(wrapper, payload) ==
    [call |-> "ok", wrapper |-> wrapper, payload |-> payload,
     content |-> Wrap(wrapper, BodyTokens(payload))]

\* the keys execute is called with; the last is in no registry
ExecuteKeys == {"frontend_scanner", "data_scanner", "ghost_worker"}

\* the elements of the array of a worker reply
ReplyItems ==
    { JObj([content |-> JText(<<Ch("code")>>), file_path |-> JStr("src/a.ts"),
            language |-> JStr("typescript"), kind |-> JStr("component"),
            description |-> JStr("a button")]),
      JObj([definition |-> JText(<<Ch("type")>>), path |-> JStr("src/b.ts"),
            type |-> JStr("interface")]),
      JObj([content |-> JNum(1), definition |-> JText(<<Ch("type")>>)]),
      JObj(<<>>),
      JNum(1) }

\* the bodies of a worker reply
WorkerPayloads ==
    {NotJson, JNull, JObj([content |-> JText(<<Ch("code")>>)])}
        \cup {JArr(items) : items \in SeqsUpTo(ReplyItems, MaxReplyItems)}

WorkerWrappers == {"bare", "padded", "fenced_json", "prose_prefixed"}

NoError == [variant |-> "none"]

NoReply == [call |-> "none"]
FailedReply == [call |-> "failed"]
\* the reply of a call that has returned: its locals are gone
DroppedReply == [call |-> "returned"]

NoPlan == [arm |-> "none"]

NoBackends == [vector |-> [call |-> "none"]]
NoQuestion == [question |-> ""]
NoOutcome == [kind |-> "none"]

\* ContextData::default(): every bucket empty
EmptyContext ==
    [relevant_symbols |-> <<>>, similar_symbols |-> <<>>, types |-> <<>>,
     constants |-> <<>>, design_tokens |-> <<>>, schemas |-> <<>>]

\* GatheredContext: the categories the auditor reads, all empty
EmptyGathered ==
    [components |-> <<>>, helpers |-> <<>>, types |-> <<>>, schemas |-> <<>>]

\* the categories in the order audit() goes through them
AuditCategories == <<"components", "helpers", "types", "schemas">>

\* an anyhow error: its message and the status it names, 0 for none
ApiError(message, status) == [message |-> message, status |-> status]
NoApiError == ApiError("none", 0)

\* call_api has not returned
NoCallResult == [returned |-> FALSE]

\* ------------------------------------------------------------------ state
VARIABLES
    registry,        \* GeminiRouterAgent.registry
    workerIds,       \* build_execution_plan: the argument worker_ids
    remaining,       \* build_execution_plan: remaining
    processed,       \* build_execution_plan: processed
    executionOrder,  \* build_execution_plan: execution_order
    progressed,      \* build_execution_plan: progressed, of the last pass
    passes,          \* number of iterations of the while loop so far
    bepPc,           \* "idle" | "loop" | "done"
    planPc,          \* plan(): "idle" | "start" | "classified" | "scheduling" | "done" | "error"
    userPrompt,      \* plan(): the argument user_prompt
    classifyReply,   \* classify_task: the reply of its text-generation call
    taskType,        \* plan(): task_classification.task_type
    planReply,       \* plan(): the reply of the planning call
    planResult,      \* plan(): the match arm taken and the SearchPlan
    planError,       \* plan(): the error returned, "" if none
    workerPc,        \* execute(): "idle" | "start" | "awaiting" | "done" | "error"
    promptKey,       \* execute(): the argument prompt_key
    workerReply,     \* execute(): the reply of its text-generation call
    workerResult,    \* execute(): Some(WorkerResult) once returned, else None
    workerError,     \* execute(): the MiowError returned
    workerLlmCalls,  \* number of generate_with_context calls execute has made
    searchPc,        \* search(): "idle" | "start" | "done"
    backends,        \* search(): what the retrieval backends answered to its calls
    results,         \* search(): results
    loopPc,          \* execute_questions: "idle" | "next" | "search" | "verify" |
                     \*   "reformulate" | "returned" | "done"
    questions,       \* execute_questions: the argument questions
    qIndex,          \* execute_questions: position of the for loop, from 1
    answers,         \* execute_questions: answers
    outcomes,        \* the kind of result each question processed so far ended in
    question,        \* execute_single_question: question
    attempt,         \* execute_single_question: attempt, from 0
    searchResults,   \* execute_single_question: search_results
    verifyReply,     \* verify_results: the reply of its text-generation call
    verification,    \* execute_single_question: verification, None before it is set
    outcome,         \* execute_single_question: the Result it returned
    searchCalls,     \* calls of search made for the current question
    verifyCalls,     \* calls of verify_results made for the current question
    reformulateCalls,\* calls of reformulate_question made for the current question
    llmReplied,      \* whether a text-generation call of the current question got a reply
    shrinkPc,        \* deduplicate / prune: "idle" | "start" | "done"
    context,         \* the ContextData handed to deduplicate or prune
    contextBefore,   \* context as it was before the last call
    dedupRuns,       \* calls of deduplicate made so far
    tokenBudget,     \* SmartPruner.token_budget
    auditPc,         \* audit(): "idle" | "start" | the category awaited | "done"
    gathered,        \* audit(): the GatheredContext
    gatheredBefore,  \* gathered as it was when audit was called
    auditReplies,    \* audit_category: per category, the reply of its call
    auditResults,    \* audit_category: per category, "none" | "ok" | "err"
    auditReturn,     \* audit(): the Result returned, "none" | "Ok" | "Err"
    auditCalls,      \* generate_with_context calls made, per category
    callPc,          \* call_api: "idle" | "attempt" | "sleep" | "done"
    callAttempt,     \* call_api: attempt
    callJitter,      \* call_api: jitter of the current attempt, in ms
    apiCalls,        \* perform_api_call calls made so far
    callErrors,      \* the errors the failed attempts so far ended in, as a set
    lastError,       \* the error of the last failed attempt
    sleeps,          \* the delays slept so far, in ms
    callResult       \* call_api: the Result returned

bepVars == <<registry, workerIds, remaining, processed, executionOrder,
             progressed, passes, bepPc>>

planVars == <<planPc, userPrompt, classifyReply, taskType, planReply,
              planResult, planError>>

workerVars == <<workerPc, promptKey, workerReply, workerResult, workerError,
                workerLlmCalls>>

searchVars == <<searchPc, backends, results>>

loopVars == <<loopPc, questions, qIndex, answers, outcomes, question, attempt,
              searchResults, verifyReply, verification, outcome, searchCalls,
              verifyCalls, reformulateCalls, llmReplied>>

questionVars == <<searchVars, loopVars>>

shrinkVars == <<shrinkPc, context, contextBefore, dedupRuns, tokenBudget>>

auditVars == <<auditPc, gathered, gatheredBefore, auditReplies, auditResults,
               auditReturn, auditCalls>>

retryVars == <<callPc, callAttempt, callJitter, apiCalls, callErrors, lastError,
               sleeps, callResult>>

pipelineVars == <<shrinkVars, auditVars, retryVars>>

vars == <<bepVars, planVars, workerVars, questionVars, pipelineVars>>

\* ------------------------------------------------------------------ scheduler
\* router.rs:224  prompt.dependencies.iter().all(|dep| processed.contains(dep))
DepsSatisfied(reg, worker_id, done) ==
    reg[worker_id].dependencies \subseteq done

\* router.rs:227-230 and 236-239: schedule worker_id and drop it from remaining
ScheduleWorker(st, worker_id) ==
    [st EXCEPT !.order = Append(@, worker_id),
               !.processed = @ \cup {worker_id},
               !.progressed = TRUE]

\* router.rs:232: keep worker_id in remaining
KeepWorker(st, worker_id) ==
    [st EXCEPT !.kept = Append(@, worker_id)]

\* a slip in the unknown-worker branch: the id leaves remaining unscheduled
UnknownWorker_Dropped(st, worker_id) ==
    [st EXCEPT !.progressed = TRUE]

\* router.rs:234-240: a worker id the registry does not know
UnknownWorker(st, worker_id) == ScheduleWorker(st, worker_id)

\* router.rs:221-241: the closure of remaining.retain, applied to one id
RetainStep(reg, st, worker_id) ==
    IF HasPrompt(reg, worker_id)
    THEN IF DepsSatisfied(reg, worker_id, st.processed)
         THEN ScheduleWorker(st, worker_id)
         ELSE KeepWorker(st, worker_id)
    ELSE UnknownWorker(st, worker_id)

\* remaining.retain(..): the closure applied to the ids in order
RECURSIVE Retain(_, _, _)
Retain(reg, rem, st) ==
    IF rem = <<>> THEN st
    ELSE Retain(reg, Tail(rem), RetainStep(reg, st, Head(rem)))

\* a slip in the cycle breaker: the remaining ids are drained but not appended
BreakCycleOrder_Lost(order, rem) == order

\* a slip in the cycle breaker: the remaining ids are appended last first
BreakCycleOrder_Reversed(order, rem) ==
    order \o [i \in 1..Len(rem) |-> rem[Len(rem) + 1 - i]]

\* router.rs:244-248: no progress, every remaining id is appended in order
BreakCycleOrder(order, rem) == order \o rem

\* a slip in the cycle breaker: the remaining ids are iterated, not drained
DrainRemaining_Iter(rem) == rem

\* router.rs:245: remaining.drain(..) leaves remaining empty
DrainRemaining(rem) == <<>>

\* router.rs:217-249: one iteration of the while loop
LoopPass(reg, st0) ==
    LET st == Retain(reg, st0.kept,
                     [order |-> st0.order, processed |-> st0.processed,
                      progressed |-> FALSE, kept |-> <<>>])
    IN  IF ~st.progressed /\ st.kept # <<>>
        THEN [st EXCEPT !.order = BreakCycleOrder(st.order, st.kept),
                        !.kept = DrainRemaining(st.kept)]
        ELSE st

\* one iteration of `while !remaining.is_empty()`
BepPass ==
    /\ bepPc = "loop"
    /\ remaining # <<>>
    /\ LET st == LoopPass(registry, [order |-> executionOrder,
                                      processed |-> processed,
                                      progressed |-> FALSE,
                                      kept |-> remaining])
       IN  /\ executionOrder' = st.order
           /\ processed' = st.processed
           /\ progressed' = st.progressed
           /\ remaining' = st.kept
    /\ passes' = passes + 1
    /\ UNCHANGED <<registry, workerIds, bepPc>>
    /\ UNCHANGED planVars
    /\ UNCHANGED <<workerVars, questionVars, pipelineVars>>

\* router.rs:251: the loop is left and execution_order returned; plan()
\* stores it in the plan and returns it (router.rs:195-196, 202-203)
BepReturn ==
    /\ bepPc = "loop"
    /\ remaining = <<>>
    /\ bepPc' = "done"
    /\ IF planPc = "scheduling"
       THEN /\ planResult' = [planResult EXCEPT !.plan.execution_plan = executionOrder]
            /\ planPc' = "done"
       ELSE UNCHANGED <<planResult, planPc>>
    /\ UNCHANGED <<registry, workerIds, remaining, processed, executionOrder,
                   progressed, passes>>
    /\ UNCHANGED <<userPrompt, classifyReply, taskType, planReply, planError>>
    /\ UNCHANGED <<workerVars, questionVars, pipelineVars>>

\* router.rs:212-214: the locals of a call build_execution_plan(ids)
BepEnter(ids) ==
    /\ workerIds' = ids
    /\ remaining' = ids
    /\ processed' = {}
    /\ executionOrder' = <<>>
    /\ progressed' = FALSE
    /\ passes' = 0
    /\ bepPc' = "loop"

\* no call of build_execution_plan is in progress
BepIdle ==
    /\ workerIds = <<>>
    /\ remaining = <<>>
    /\ processed = {}
    /\ executionOrder = <<>>
    /\ progressed = FALSE
    /\ passes = 0
    /\ bepPc = "idle"

\* no call of plan() is in progress
PlanIdle ==
    /\ planPc = "idle"
    /\ userPrompt = <<>>
    /\ classifyReply = NoReply
    /\ taskType = ""
    /\ planReply = NoReply
    /\ planResult = NoPlan
    /\ planError = ""

\* no call of execute() is in progress
WorkerIdle ==
    /\ workerPc = "idle"
    /\ promptKey = ""
    /\ workerReply = NoReply
    /\ workerResult = None
    /\ workerError = NoError
    /\ workerLlmCalls = 0

\* no call of search() is in progress
SearchIdle ==
    /\ searchPc = "idle"
    /\ backends = NoBackends
    /\ results = <<>>

\* no local of execute_single_question is live
QuestionIdle ==
    /\ question = NoQuestion
    /\ attempt = 0
    /\ searchResults = <<>>
    /\ verifyReply = NoReply
    /\ verification = None
    /\ outcome = NoOutcome
    /\ searchCalls = 0
    /\ verifyCalls = 0
    /\ reformulateCalls = 0
    /\ llmReplied = FALSE

\* no call of execute_questions is in progress
LoopIdle ==
    /\ loopPc = "idle"
    /\ questions = <<>>
    /\ qIndex = 1
    /\ answers = <<>>
    /\ outcomes = <<>>
    /\ QuestionIdle

\* no call of deduplicate or prune is in progress
ShrinkIdle ==
    /\ shrinkPc = "idle"
    /\ context = EmptyContext
    /\ contextBefore = EmptyContext
    /\ dedupRuns = 0
    /\ tokenBudget = 0

\* no call of audit() is in progress
AuditIdle ==
    /\ auditPc = "idle"
    /\ gathered = EmptyGathered
    /\ gatheredBefore = EmptyGathered
    /\ auditReplies = [c \in DOMAIN EmptyGathered |-> NoReply]
    /\ auditResults = [c \in DOMAIN EmptyGathered |-> "none"]
    /\ auditReturn = "none"
    /\ auditCalls = [c \in DOMAIN EmptyGathered |-> 0]

\* no call of call_api is in progress
RetryIdle ==
    /\ callPc = "idle"
    /\ callAttempt = 0
    /\ callJitter = 0
    /\ apiCalls = 0
    /\ callErrors = {}
    /\ lastError = NoApiError
    /\ sleeps = <<>>
    /\ callResult = NoCallResult

PipelineIdle == ShrinkIdle /\ AuditIdle /\ RetryIdle

\* ------------------------------------------------------------------ plan()
\* router.rs:115 and 255-278: classify_task, its text-generation call fails
\* (or the registry has no task_classifier) and `?` returns the error
PlanClassifyFails ==
    /\ planPc = "start"
    /\ planPc' = "error"
    /\ IF HasPrompt(registry, "task_classifier")
       THEN /\ classifyReply' = FailedReply
            /\ planError' = "classification call failed"
       ELSE /\ classifyReply' = NoReply
            /\ planError' = "task_classifier prompt not found"
    /\ UNCHANGED <<userPrompt, taskType, planReply, planResult>>
    /\ UNCHANGED bepVars
    /\ UNCHANGED <<workerVars, questionVars, pipelineVars>>

\* router.rs:115 and 255-299: classify_task returns a classification
PlanClassify ==
    /\ planPc = "start"
    /\ HasPrompt(registry, "task_classifier")
    /\ \E w \in ReplyWrappers, p \in ClassifyPayloads :
          /\ classifyReply' = Reply(w, p)
          /\ taskType' = ClassifyTask(Reply(w, p).content)
    /\ planPc' = "classified"
    /\ UNCHANGED <<userPrompt, planReply, planResult, planError>>
    /\ UNCHANGED bepVars
    /\ UNCHANGED <<workerVars, questionVars, pipelineVars>>

\* router.rs:174-178: the planning call fails and `?` returns the error
PlanGenerateFails ==
    /\ planPc = "classified"
    /\ planPc' = "error"
    /\ planReply' = FailedReply
    /\ planError' = "Router LLM call failed"
    /\ classifyReply' = DroppedReply
    /\ UNCHANGED <<userPrompt, taskType, planResult>>
    /\ UNCHANGED bepVars
    /\ UNCHANGED <<workerVars, questionVars, pipelineVars>>

\* router.rs:116 and 174-202: the planning call replies, the reply is parsed,
\* the plan is chosen and build_execution_plan is entered with its worker ids
PlanGenerate ==
    /\ planPc = "classified"
    /\ \E w \in PlanWrappers, p \in PlanPayloads :
          LET recommended_workers == GetRecommendedPrompts(taskType)
              chosen == ChoosePlan(registry, userPrompt, recommended_workers,
                                   Reply(w, p).content)
          IN  /\ planReply' = Reply(w, p)
              /\ planResult' = chosen
              /\ BepEnter(WorkerIdsOf(chosen.plan))
    /\ planPc' = "scheduling"
    /\ classifyReply' = DroppedReply
    /\ UNCHANGED <<registry, userPrompt, taskType, planError>>
    /\ UNCHANGED <<workerVars, questionVars, pipelineVars>>

\* build_execution_plan called on a fixture registry
InitDirect ==
    /\ registry \in FixtureRegistries
    /\ \E ids \in FixtureBatches :
          /\ workerIds = ids
          /\ remaining = ids
    /\ processed = {}
    /\ executionOrder = <<>>
    /\ progressed = FALSE
    /\ passes = 0
    /\ bepPc = "loop"
    /\ PlanIdle
    /\ WorkerIdle
    /\ SearchIdle
    /\ LoopIdle
    /\ PipelineIdle

\* plan() called on a router built by GeminiRouterAgent::new
InitPlan ==
    /\ registry = PromptRegistryNew
    /\ BepIdle
    /\ planPc = "start"
    /\ userPrompt \in UserPrompts
    /\ classifyReply = NoReply
    /\ taskType = ""
    /\ planReply = NoReply
    /\ planResult = NoPlan
    /\ planError = ""
    /\ WorkerIdle
    /\ SearchIdle
    /\ LoopIdle
    /\ PipelineIdle

Init == InitDirect \/ InitPlan

Next ==
    \/ BepPass
    \/ BepReturn
    \/ PlanClassifyFails
    \/ PlanClassify
    \/ PlanGenerateFails
    \/ PlanGenerate

Spec == Init /\ [][Next]_vars

\* ------------------------------------------------------------------ execute()
\* workers.rs:62-65: the key is not in the registry; the error is returned
\* before anything else is done
ExecuteUnknownKey ==
    /\ workerPc = "start"
    /\ ~HasPrompt(registry, promptKey)
    /\ workerPc' = "error"
    /\ workerError' = [variant |-> "Generic",
                       message |-> <<"Unknown prompt key: ", promptKey>>]
    /\ UNCHANGED <<promptKey, workerReply, workerResult, workerLlmCalls>>
    /\ UNCHANGED <<bepVars, planVars, questionVars, pipelineVars>>

\* workers.rs:68-98: the prompt is built from the template and sent; what is
\* sent does not bear on the result and is left out
ExecuteCall ==
    /\ workerPc = "start"
    /\ HasPrompt(registry, promptKey)
    /\ workerPc' = "awaiting"
    /\ workerLlmCalls' = workerLlmCalls + 1
    /\ UNCHANGED <<promptKey, workerReply, workerResult, workerError>>
    /\ UNCHANGED <<bepVars, planVars, questionVars, pipelineVars>>

\* workers.rs:98-100: the call fails; the error is mapped to MiowError::Llm
ExecuteCallFails ==
    /\ workerPc = "awaiting"
    /\ workerPc' = "error"
    /\ workerReply' = FailedReply
    /\ workerError' = [variant |-> "Llm", message |-> <<"call failed">>]
    /\ UNCHANGED <<promptKey, workerResult, workerLlmCalls>>
    /\ UNCHANGED <<bepVars, planVars, questionVars, pipelineVars>>

\* workers.rs:104-111: the reply is parsed and the WorkerResult returned
ExecuteReply ==
    /\ workerPc = "awaiting"
    /\ \E w \in WorkerWrappers, p \in WorkerPayloads :
          /\ workerReply' = Reply(w, p)
          /\ workerResult' = Some(WorkerResultOf(promptKey, Reply(w, p).content))
    /\ workerPc' = "done"
    /\ UNCHANGED <<promptKey, workerError, workerLlmCalls>>
    /\ UNCHANGED <<bepVars, planVars, questionVars, pipelineVars>>

\* execute() called on a worker built by GeminiWorkerAgent::new_with_registry
InitWorker ==
    /\ registry = PromptRegistryNew
    /\ BepIdle
    /\ PlanIdle
    /\ workerPc = "start"
    /\ promptKey \in ExecuteKeys
    /\ workerReply = NoReply
    /\ workerResult = None
    /\ workerError = NoError
    /\ workerLlmCalls = 0
    /\ SearchIdle
    /\ LoopIdle
    /\ PipelineIdle

NextWorker ==
    \/ ExecuteUnknownKey
    \/ ExecuteCall
    \/ ExecuteCallFails
    \/ ExecuteReply

SpecWorker == InitWorker /\ [][NextWorker]_vars

\* ------------------------------------------------------------------ search()
\* a SymbolSearchResult: of it the merge reads name and file_path
Symbol(name, file_path) == [name |-> name, kind |-> "component", file_path |-> file_path]

\* the symbols of the indexed repository, in the order the graph lists them
GraphSymbols ==
    <<Symbol("Button", "src/a.tsx"), Symbol("Button", "src/b.tsx"),
      Symbol("User", "src/a.tsx")>>

\* most results of one search_similar call
MaxVectorHits == 2

\* Result<T> of a call to a retrieval backend
BackendOk(v) == [ok |-> TRUE, v |-> v]
BackendErr == [ok |-> FALSE]

\* the elements of s at the positions of I, in the order of s
RECURSIVE PickFrom(_, _, _)
PickFrom(s, I, i) ==
    IF i > Len(s) THEN <<>>
    ELSE (IF i \in I THEN <<s[i]>> ELSE <<>>) \o PickFrom(s, I, i + 1)

SubSeqsOf(s) == {PickFrom(s, I, 1) : I \in SUBSET (1..Len(s))}

\* the names of the symbols a search_similar call finds (vr.symbol.name)
VectorHitNames == {GraphSymbols[i].name : i \in 1..Len(GraphSymbols)}

\* vector_store: None, or Some with the Result of search_similar(query, 10)
VectorOutcomes ==
    {[call |-> "absent"], [call |-> "failed"]}
        \cup {[call |-> "ok", hits |-> h] : h \in SeqsUpTo(VectorHitNames, MaxVectorHits)}

\* the Result of graph.find_symbols_by_name(name): an error, or symbols of
\* that name, no symbol twice
ByNameReplies(name) ==
    {BackendErr} \cup
    {BackendOk(l) : l \in SubSeqsOf(SelectSeq(GraphSymbols, LAMBDA s : s.name = name))}

\* the Results of the find_symbols_by_name calls made for the hits, one per hit
ByNameRepliesFor(vector) ==
    IF vector.call = "ok"
    THEN {b \in [1..Len(vector.hits) -> UNION {ByNameReplies(n) : n \in VectorHitNames}] :
             \A i \in 1..Len(vector.hits) : b[i] \in ByNameReplies(vector.hits[i])}
    ELSE {<<>>}

\* the Result of graph.search_symbols(query): an error, or symbols, no symbol twice
GraphReplies == {BackendErr} \cup {BackendOk(l) : l \in SubSeqsOf(GraphSymbols)}

\* what the backends answer to the calls of one search
SearchBackends ==
    UNION { {[vector |-> v, byName |-> b, graph |-> g] :
                b \in ByNameRepliesFor(v), g \in GraphReplies} : v \in VectorOutcomes }

\* question_loop.rs:192-197: results.extend(symbols) for every hit whose
\* lookup by name succeeded
RECURSIVE ExtendByName(_, _)
ExtendByName(res, replies) ==
    IF replies = <<>> THEN res
    ELSE ExtendByName(IF Head(replies).ok THEN res \o Head(replies).v ELSE res,
                      Tail(replies))

\* question_loop.rs:213-217: a graph result is pushed unless results already
\* holds an entry of its name and file_path
RECURSIVE MergeGraph(_, _)
MergeGraph(res, graph_results) ==
    IF graph_results = <<>> THEN res
    ELSE LET gr == Head(graph_results)
         IN  MergeGraph(IF \E i \in 1..Len(res) :
                               res[i].name = gr.name /\ res[i].file_path = gr.file_path
                            THEN res
                            ELSE Append(res, gr),
                        Tail(graph_results))

\* question_loop.rs:179-221  search
Search(b) ==
    LET vector_part == IF b.vector.call = "ok" THEN ExtendByName(<<>>, b.byName)
                       ELSE <<>>
    IN  IF b.graph.ok THEN MergeGraph(vector_part, b.graph.v) ELSE vector_part

\* question_loop.rs:179-221: one call of search, which always returns Ok
SearchCall ==
    /\ searchPc = "start"
    /\ \E b \in SearchBackends :
          /\ backends' = b
          /\ results' = Search(b)
    /\ searchPc' = "done"
    /\ UNCHANGED <<bepVars, planVars, workerVars, loopVars, pipelineVars>>

\* search() called on a QuestionLoop
InitSearch ==
    /\ registry = PromptRegistryNew
    /\ BepIdle
    /\ PlanIdle
    /\ WorkerIdle
    /\ searchPc = "start"
    /\ backends = NoBackends
    /\ results = <<>>
    /\ LoopIdle
    /\ PipelineIdle

NextSearch == SearchCall

SpecSearch == InitSearch /\ [][NextSearch]_vars

\* ------------------------------------------------------------------ question loop
\* question_loop.rs:67  max_retries: 3
max_retries == 3

\* question_loop.rs:151 and 167: the confidence of an answer, in tenths
FoundConfidenceTenths == 10
PartialConfidenceTenths == 5

\* longest batch of questions handed to execute_questions
MaxQuestions == 2

\* a CriticalQuestion; search_query is the sequence of its pieces
CriticalQuestion(q, search_query, expected_type, priority) ==
    [question |-> q, search_query |-> search_query,
     expected_type |-> expected_type, priority |-> priority]

QuestionSet ==
    { CriticalQuestion("Is there a Button component?", <<Ch("Button")>>,
                       "component", "Critical"),
      CriticalQuestion("Is there a User model?", <<Ch("User")>>, "type", "Medium") }

QuestionBatches == SeqsUpTo(QuestionSet, MaxQuestions)

\* what the backends answer to a search of the loop: the vector store absent,
\* failing, or finding at most the Button of src/a.tsx; the graph failing or
\* listing a prefix of its Buttons
LoopBackends ==
    {b \in SearchBackends :
        /\ b.vector.call = "ok" =>
              /\ b.vector.hits \in {<<>>, <<"Button">>}
              /\ \A i \in 1..Len(b.byName) :
                    b.byName[i].ok => b.byName[i].v = <<GraphSymbols[1]>>
        /\ b.graph.ok => \E n \in 0..2 : b.graph.v = SubSeq(GraphSymbols, 1, n)}

\* the bodies and wrappers of a verification reply
VerifyPayloads ==
    { JObj([is_correct |-> JBool(TRUE), reason |-> JStr("match")]),
      JObj([is_correct |-> JBool(FALSE), reason |-> JStr("wrong kind"),
            suggestion |-> JStr("ButtonProps")]),
      JObj([is_correct |-> JBool(FALSE), reason |-> JStr("wrong kind"),
            suggestion |-> JNull]),
      JObj([is_correct |-> JBool(FALSE)]),
      JObj([is_correct |-> JStr("yes"), reason |-> JStr("match")]),
      NotJson }

VerifyWrappers == {"bare", "fenced_json", "prose_prefixed"}

\* the bodies and wrappers of a reformulation reply
ReformulatePayloads ==
    { JObj([new_query |-> JText(<<Ch("Btn")>>)]),
      JObj([new_query |-> JNum(1)]),
      NotJson }

ReformulateWrappers == {"bare", "fenced_json"}

\* QuestionAnswer
QuestionAnswer(q, symbols, confidence) ==
    [question |-> q, symbols |-> symbols, confidence |-> confidence]

\* a slip in the success arm: the answer carries the confidence of a partial one
FoundResult_Half(q, symbols) ==
    [kind |-> "Found",
     answers |-> <<QuestionAnswer(q.question, symbols, PartialConfidenceTenths)>>]

\* question_loop.rs:148-152  Ok(QuestionResult::Found(vec![..]))
FoundResult(q, symbols) ==
    [kind |-> "Found",
     answers |-> <<QuestionAnswer(q.question, symbols, FoundConfidenceTenths)>>]

\* question_loop.rs:164-168  Ok(QuestionResult::PartiallyFound(vec![..]))
PartiallyFoundResult(q, symbols) ==
    [kind |-> "PartiallyFound",
     answers |-> <<QuestionAnswer(q.question, symbols, PartialConfidenceTenths)>>]

\* Ok(QuestionResult::NotFound)
NotFoundResult == [kind |-> "NotFound"]

\* Err(e), e the error of a text-generation call
ErrResult == [kind |-> "Err"]

\* a slip in the loop: a retry does not advance the attempt
NextAttempt_Same(a) == a

\* question_loop.rs:116  for attempt in 0..self.max_retries: the next attempt
NextAttempt(a) == a + 1

\* a slip in the guard: the final attempt counts as one that can be retried
CanRetry_Always(a) == a < max_retries

\* a slip in the retry test: no attempt is ever followed by another
CanRetry_Never(a) == FALSE

\* question_loop.rs:127 and 156  attempt < self.max_retries - 1
CanRetry(a) == a < max_retries - 1

\* Value::as_str of a JSON string, identifier or text
StrOf(j) == IF "s" \in DOMAIN j THEN j.s ELSE j.txt

\* deserialization of Option<String>: absent or null is None
DeOptionString(m, key) ==
    IF key \notin DOMAIN m \/ m[key] = JNull THEN ParseOk(None)
    ELSE IF IsJString(m[key]) THEN ParseOk(Some(StrOf(m[key])))
    ELSE ParseErr

\* question_loop.rs:27-32  Deserialize of VerificationResult from a JSON
\* value: is_correct a bool, reason a string, suggestion optional
DeVerificationResult(j) ==
    IF /\ j.jt = "object"
       /\ "is_correct" \in DOMAIN j.m
       /\ j.m.is_correct.jt = "bool"
       /\ "reason" \in DOMAIN j.m
       /\ IsJString(j.m.reason)
       /\ DeOptionString(j.m, "suggestion").ok
    THEN ParseOk([is_correct |-> j.m.is_correct.b,
                  reason |-> StrOf(j.m.reason),
                  suggestion |-> DeOptionString(j.m, "suggestion").v])
    ELSE ParseErr

\* serde_json::from_str::<VerificationResult>
FromStrVerificationResult(s) ==
    LET r == FromStrValue(s)
    IN  IF r.ok THEN DeVerificationResult(r.v) ELSE ParseErr

\* a slip in the fallback: an undecodable reply counts as "not correct"
VerifyResults_FailClosed(content, search_results) ==
    LET r == FromStrVerificationResult(StripFences(content))
    IN  IF r.ok THEN r.v
        ELSE [is_correct |-> FALSE,
              reason |-> "Failed to parse verification response",
              suggestion |-> None]

\* question_loop.rs:264-279: the VerificationResult of a verification reply
VerifyResults(content, search_results) ==
    LET r == FromStrVerificationResult(StripFences(content))
    IN  IF r.ok THEN r.v
        ELSE [is_correct |-> search_results # <<>>,
              reason |-> "Failed to parse verification response",
              suggestion |-> None]

\* str::contains("User")
ContainsUser(query) == \E i \in 1..Len(query) : query[i] = Ch("User")

\* str::replace("User", "UserModel")
RECURSIVE ReplaceUser(_)
ReplaceUser(query) ==
    IF query = <<>> THEN <<>>
    ELSE (IF Head(query) = Ch("User") THEN <<Ch("User"), Ch("Model")>>
          ELSE <<Head(query)>>) \o ReplaceUser(Tail(query))

\* question_loop.rs:330-334: the query of the fallback
HeuristicQuery(q) ==
    IF ContainsUser(q.search_query) THEN ReplaceUser(q.search_query)
    ELSE <<Ch(q.expected_type), Ws>> \o q.search_query

\* question_loop.rs:312-339: the question reformulated from a reply
ReformulateQuestion(q, content) ==
    LET r == FromStrValue(StripFences(content))
    IN  IF r.ok /\ HasMember(r.v, "new_query") /\ IsJString(r.v.m.new_query)
        THEN [q EXCEPT !.search_query = StrOf(r.v.m.new_query)]
        ELSE [q EXCEPT !.search_query = HeuristicQuery(q)]

\* a slip in the aggregation: partial answers are left out
Collect_FoundOnly(acc, res) ==
    IF res.kind = "Found" THEN acc \o res.answers ELSE acc

\* question_loop.rs:85-108: answers after the match on the result of a question
Collect(acc, res) ==
    IF res.kind \in {"Found", "PartiallyFound"} THEN acc \o res.answers ELSE acc

\* execute_single_question returns res
ReturnResult(res) ==
    /\ outcome' = res
    /\ loopPc' = "returned"

\* question_loop.rs:80-85: the for loop takes the next question and calls
\* execute_single_question on a clone of it
ExecuteQuestionsNext ==
    /\ loopPc = "next"
    /\ qIndex <= Len(questions)
    /\ question' = questions[qIndex]
    /\ attempt' = 0
    /\ loopPc' = "search"
    /\ UNCHANGED <<questions, qIndex, answers, outcomes, searchResults, verifyReply,
                   verification, outcome, searchCalls, verifyCalls, reformulateCalls,
                   llmReplied>>
    /\ UNCHANGED <<bepVars, planVars, workerVars, searchVars, pipelineVars>>

\* question_loop.rs:111: the questions are exhausted, Ok(answers)
ExecuteQuestionsReturn ==
    /\ loopPc = "next"
    /\ qIndex > Len(questions)
    /\ loopPc' = "done"
    /\ UNCHANGED <<questions, qIndex, answers, outcomes, question, attempt,
                   searchResults, verifyReply, verification, outcome, searchCalls,
                   verifyCalls, reformulateCalls, llmReplied>>
    /\ UNCHANGED <<bepVars, planVars, workerVars, searchVars, pipelineVars>>

\* question_loop.rs:123-136: the search of an attempt and the branch on an
\* empty result
SingleSearch ==
    /\ loopPc = "search"
    /\ \E b \in LoopBackends :
          LET search_results == Search(b)
          IN  /\ searchResults' = search_results
              /\ IF search_results = <<>> /\ CanRetry(attempt)
                 THEN loopPc' = "reformulate" /\ UNCHANGED outcome
                 ELSE IF search_results = <<>>
                 THEN ReturnResult(NotFoundResult)
                 ELSE loopPc' = "verify" /\ UNCHANGED outcome
    /\ searchCalls' = searchCalls + 1
    /\ UNCHANGED <<questions, qIndex, answers, outcomes, question, attempt,
                   verifyReply, verification, verifyCalls, reformulateCalls,
                   llmReplied>>
    /\ UNCHANGED <<bepVars, planVars, workerVars, searchVars, pipelineVars>>

\* question_loop.rs:141 and 260: the text-generation call of verify_results
\* fails and `?` returns the error
VerifyFails ==
    /\ loopPc = "verify"
    /\ verifyReply' = FailedReply
    /\ verifyCalls' = verifyCalls + 1
    /\ ReturnResult(ErrResult)
    /\ UNCHANGED <<questions, qIndex, answers, outcomes, question, attempt,
                   searchResults, verification, searchCalls, reformulateCalls,
                   llmReplied>>
    /\ UNCHANGED <<bepVars, planVars, workerVars, searchVars, pipelineVars>>

\* question_loop.rs:141-172: the verification of an attempt and the branches
\* on its result
Verify ==
    /\ loopPc = "verify"
    /\ \E w \in VerifyWrappers, p \in VerifyPayloads :
          LET v == VerifyResults(Reply(w, p).content, searchResults)
          IN  /\ verifyReply' = Reply(w, p)
              /\ verification' = Some(v)
              /\ IF v.is_correct
                 THEN ReturnResult(FoundResult(question, searchResults))
                 ELSE IF CanRetry(attempt)
                 THEN loopPc' = "reformulate" /\ UNCHANGED outcome
                 ELSE IF searchResults # <<>>
                 THEN ReturnResult(PartiallyFoundResult(question, searchResults))
                 ELSE ReturnResult(NotFoundResult)
    /\ verifyCalls' = verifyCalls + 1
    /\ llmReplied' = TRUE
    /\ UNCHANGED <<questions, qIndex, answers, outcomes, question, attempt,
                   searchResults, searchCalls, reformulateCalls>>
    /\ UNCHANGED <<bepVars, planVars, workerVars, searchVars, pipelineVars>>

\* question_loop.rs:130, 160 and 308: the text-generation call of
\* reformulate_question fails and `?` returns the error
ReformulateFails ==
    /\ loopPc = "reformulate"
    /\ reformulateCalls' = reformulateCalls + 1
    /\ ReturnResult(ErrResult)
    /\ UNCHANGED <<questions, qIndex, answers, outcomes, question, attempt,
                   searchResults, verifyReply, verification, searchCalls,
                   verifyCalls, llmReplied>>
    /\ UNCHANGED <<bepVars, planVars, workerVars, searchVars, pipelineVars>>

\* question_loop.rs:130-131, 160 and 173-175: the question is reformulated
\* and the for loop goes to the next attempt, or ends
Reformulate ==
    /\ loopPc = "reformulate"
    /\ \E w \in ReformulateWrappers, p \in ReformulatePayloads :
          question' = ReformulateQuestion(question, Reply(w, p).content)
    /\ reformulateCalls' = reformulateCalls + 1
    /\ llmReplied' = TRUE
    /\ attempt' = NextAttempt(attempt)
    /\ searchResults' = <<>>
    /\ verifyReply' = NoReply
    /\ verification' = None
    /\ IF NextAttempt(attempt) < max_retries
       THEN loopPc' = "search" /\ UNCHANGED outcome
       ELSE ReturnResult(NotFoundResult)
    /\ UNCHANGED <<questions, qIndex, answers, outcomes, searchCalls, verifyCalls>>
    /\ UNCHANGED <<bepVars, planVars, workerVars, searchVars, pipelineVars>>

\* question_loop.rs:85-109: the match on the result of the question; its
\* locals are gone
ExecuteQuestionsCollect ==
    /\ loopPc = "returned"
    /\ answers' = Collect(answers, outcome)
    /\ outcomes' = Append(outcomes, outcome.kind)
    /\ qIndex' = qIndex + 1
    /\ loopPc' = "next"
    /\ question' = NoQuestion
    /\ attempt' = 0
    /\ searchResults' = <<>>
    /\ verifyReply' = NoReply
    /\ verification' = None
    /\ outcome' = NoOutcome
    /\ searchCalls' = 0
    /\ verifyCalls' = 0
    /\ reformulateCalls' = 0
    /\ llmReplied' = FALSE
    /\ UNCHANGED questions
    /\ UNCHANGED <<bepVars, planVars, workerVars, searchVars, pipelineVars>>

\* execute_questions called on a QuestionLoop built by QuestionLoop::new
InitLoop ==
    /\ registry = PromptRegistryNew
    /\ BepIdle
    /\ PlanIdle
    /\ WorkerIdle
    /\ SearchIdle
    /\ loopPc = "next"
    /\ questions \in QuestionBatches
    /\ qIndex = 1
    /\ answers = <<>>
    /\ outcomes = <<>>
    /\ QuestionIdle
    /\ PipelineIdle

\* the calls execute_single_question makes
LoopCalls ==
    \/ SingleSearch
    \/ VerifyFails
    \/ Verify
    \/ ReformulateFails
    \/ Reformulate

NextLoop ==
    \/ ExecuteQuestionsNext
    \/ ExecuteQuestionsReturn
    \/ SingleSearch
    \/ VerifyFails
    \/ Verify
    \/ ReformulateFails
    \/ Reformulate
    \/ ExecuteQuestionsCollect

SpecLoop == InitLoop /\ [][NextLoop]_vars

\* ------------------------------------------------------------------ deduplicate
\* In the shrink stages a string is the sequence of its pieces, the piece ":"
\* among them; its length in characters is the sum of the lengths of the pieces.

\* most items, over all buckets, of a ContextData handed to deduplicate
MaxContextItems == 3

\* most calls of deduplicate made in a row on one ContextData
MaxDedupRuns == 2

\* format!("{}:{}", a, b)
FormatKey(a, b) == a \o <<":">> \o b

\* an item of a symbol bucket
SymbolItem(name, file_path, content) ==
    [name |-> name, file_path |-> file_path, content |-> content]

\* an item of types or schemas
DefinitionItem(name, definition, kind) ==
    [name |-> name, definition |-> definition, kind |-> kind]

\* an item of constants
ConstantItem(name, value, kind) == [name |-> name, value |-> value, kind |-> kind]

\* an item of design_tokens
TokenItem(name, value) == [name |-> name, value |-> value]

\* the items the buckets of a ContextData handed to deduplicate are filled
\* from: per bucket two items of one key, an item of another key that
\* formats to the same string, and (symbols) an item sharing only the name
DedupItems ==
    LET symbols == { SymbolItem(<<"a">>, <<"b", ":", "c">>, <<"x">>),
                     SymbolItem(<<"a">>, <<"b", ":", "c">>, <<"y">>),
                     SymbolItem(<<"a", ":", "b">>, <<"c">>, <<"x">>),
                     SymbolItem(<<"a">>, <<"c">>, <<"x">>) }
        definitions == { DefinitionItem(<<"a">>, <<"b", ":", "c">>, "interface"),
                         DefinitionItem(<<"a">>, <<"b", ":", "c">>, "alias"),
                         DefinitionItem(<<"a", ":", "b">>, <<"c">>, "interface") }
    IN  [relevant_symbols |-> symbols,
         similar_symbols |-> symbols,
         types |-> definitions,
         constants |-> { ConstantItem(<<"a">>, <<"b", ":", "c">>, "const"),
                         ConstantItem(<<"a">>, <<"b", ":", "c">>, "env"),
                         ConstantItem(<<"a", ":", "b">>, <<"c">>, "const") },
         design_tokens |-> { TokenItem(<<"a">>, <<"b">>) },
         schemas |-> definitions]

\* every ContextData of at most n items, its buckets filled from items
RECURSIVE ContextsUpTo(_, _)
ContextsUpTo(items, n) ==
    IF n = 0 THEN {EmptyContext}
    ELSE LET fewer == ContextsUpTo(items, n - 1)
         IN  fewer \cup
             UNION { {[c EXCEPT ![b] = Append(@, x)] : c \in fewer, x \in items[b]} :
                     b \in DOMAIN items }

DedupContexts == ContextsUpTo(DedupItems, MaxContextItems)

\* the keys of the items of a symbol bucket (deduplication.rs:16)
SymbolKeys(items) ==
    [i \in 1..Len(items) |-> FormatKey(items[i].name, items[i].file_path)]

\* the keys of the items of types or schemas (deduplication.rs:30, 44)
DefinitionKeys(items) ==
    [i \in 1..Len(items) |-> FormatKey(items[i].name, items[i].definition)]

\* the keys of the items of constants (deduplication.rs:37)
ValueKeys(items) ==
    [i \in 1..Len(items) |-> FormatKey(items[i].name, items[i].value)]

\* a slip in the retain: only the first item found with a seen key is dropped
RetainUnseen_Once(items, keys) ==
    LET seen == {i \in 1..Len(items) : \E j \in 1..(i - 1) : keys[j] = keys[i]}
    IN  IF seen = {} THEN items
        ELSE PickFrom(items,
                      (1..Len(items)) \ {CHOOSE i \in seen : \A j \in seen : i <= j}, 1)

\* Vec::retain(|x| seen.insert(key(x))): an item stays when no item before it
\* has its key
RetainUnseen(items, keys) ==
    PickFrom(items,
             {i \in 1..Len(items) : \A j \in 1..(i - 1) : keys[j] # keys[i]}, 1)

\* deduplication.rs:21-23  relevant_names
NamesOf(items) == {items[i].name : i \in 1..Len(items)}

\* a slip in the cross-bucket rule: nothing is removed
RemoveNamed_Keep(items, names) == items

\* deduplication.rs:25  retain(|s| !relevant_names.contains(&s.name))
RemoveNamed(items, names) == SelectSeq(items, LAMBDA s : s.name \notin names)

\* deduplication.rs:10-52  deduplicate
Deduplicate(c) ==
    LET relevant == RetainUnseen(c.relevant_symbols, SymbolKeys(c.relevant_symbols))
    IN  [c EXCEPT !.relevant_symbols = relevant,
                  !.similar_symbols = RemoveNamed(@, NamesOf(relevant)),
                  !.types = RetainUnseen(@, DefinitionKeys(@)),
                  !.constants = RetainUnseen(@, ValueKeys(@)),
                  !.schemas = RetainUnseen(@, DefinitionKeys(@))]

\* deduplication.rs:10-52: one call of deduplicate on the context
DeduplicateCall ==
    /\ shrinkPc = "start"
    /\ dedupRuns < MaxDedupRuns
    /\ contextBefore' = context
    /\ context' = Deduplicate(context)
    /\ dedupRuns' = dedupRuns + 1
    /\ UNCHANGED <<shrinkPc, tokenBudget>>
    /\ UNCHANGED <<bepVars, planVars, workerVars, questionVars, auditVars, retryVars>>

\* deduplicate called on a ContextData
InitDedup ==
    /\ registry = PromptRegistryNew
    /\ BepIdle
    /\ PlanIdle
    /\ WorkerIdle
    /\ SearchIdle
    /\ LoopIdle
    /\ shrinkPc = "start"
    /\ context \in DedupContexts
    /\ contextBefore = context
    /\ dedupRuns = 0
    /\ tokenBudget = 0
    /\ AuditIdle
    /\ RetryIdle

NextDedup == DeduplicateCall

SpecDedup == InitDedup /\ [][NextDedup]_vars

\* ------------------------------------------------------------------ prune
\* pruner.rs:75  const MAX_ITEMS: usize = 10
MAX_ITEMS == 10

\* most items, over all buckets, of a small ContextData handed to prune
MaxPruneItems == 3

\* largest of the small token budgets
MaxBudget == 3

\* str::len of a string given by its pieces
RECURSIVE CharLen(_)
CharLen(text) == IF text = <<>> THEN 0 ELSE Len(Head(text)) + CharLen(Tail(text))

\* the sum of f[i] over the sequence f of numbers
RECURSIVE SumSeq(_)
SumSeq(f) == IF f = <<>> THEN 0 ELSE Head(f) + SumSeq(Tail(f))

\* pruner.rs:44-56  calculate_usage
CalculateUsage(c) ==
    LET chars ==
          SumSeq([i \in 1..Len(c.relevant_symbols) |-> CharLen(c.relevant_symbols[i].content)])
        + SumSeq([i \in 1..Len(c.similar_symbols) |-> CharLen(c.similar_symbols[i].content)])
        + SumSeq([i \in 1..Len(c.types) |-> CharLen(c.types[i].definition)])
        + SumSeq([i \in 1..Len(c.constants) |-> CharLen(c.constants[i].value)])
        + SumSeq([i \in 1..Len(c.design_tokens) |-> CharLen(c.design_tokens[i].value)])
        + SumSeq([i \in 1..Len(c.schemas) |-> CharLen(c.schemas[i].definition)])
    IN  chars \div 4

\* pruner.rs:59-64  is_test: the path contains one of the four markers
IsTest(path) ==
    \E i \in 1..Len(path) : path[i] \in {".test.", ".spec.", "__tests__", "mock"}

\* pruner.rs:58-71  remove_test_files
RemoveTestFiles(c) ==
    [c EXCEPT !.relevant_symbols = SelectSeq(@, LAMBDA s : ~IsTest(s.file_path)),
              !.similar_symbols = SelectSeq(@, LAMBDA s : ~IsTest(s.file_path))]

\* if v.len() > n { v.truncate(n) }
Truncate(v, n) == IF Len(v) > n THEN SubSeq(v, 1, n) ELSE v

\* pruner.rs:73-87  limit_items
LimitItems(c) ==
    [c EXCEPT !.relevant_symbols = Truncate(@, MAX_ITEMS),
              !.similar_symbols = Truncate(@, MAX_ITEMS),
              !.types = Truncate(@, MAX_ITEMS)]

\* pruner.rs:96-98: relevant_symbols.pop() while over budget and not empty
RECURSIVE PopWhileOver(_, _)
PopWhileOver(c, budget) ==
    IF CalculateUsage(c) > budget /\ c.relevant_symbols # <<>>
    THEN PopWhileOver([c EXCEPT !.relevant_symbols = SubSeq(@, 1, Len(@) - 1)], budget)
    ELSE c

\* a slip in the last tier: the secondary buckets are cleared, nothing is popped
AggressivePrune_NoPop(c, budget) ==
    [c EXCEPT !.similar_symbols = <<>>,
              !.constants = <<>>,
              !.design_tokens = <<>>]

\* a slip in the last tier: the relevant bucket is cleared with the others
AggressivePrune_PopAll(c, budget) ==
    LET cleared == [c EXCEPT !.similar_symbols = <<>>,
                             !.constants = <<>>,
                             !.design_tokens = <<>>]
    IN  IF CalculateUsage(cleared) > budget
        THEN [cleared EXCEPT !.relevant_symbols = <<>>]
        ELSE cleared

\* pruner.rs:89-99  aggressive_prune
AggressivePrune(c, budget) ==
    PopWhileOver([c EXCEPT !.similar_symbols = <<>>,
                           !.constants = <<>>,
                           !.design_tokens = <<>>], budget)

\* a slip in prune: the tiers run without the tests between them
Prune_AllTiers(c, budget) ==
    IF CalculateUsage(c) <= budget THEN c
    ELSE AggressivePrune(LimitItems(RemoveTestFiles(c)), budget)

\* pruner.rs:15-42  prune
Prune(c, budget) ==
    IF CalculateUsage(c) <= budget THEN c
    ELSE LET tested == RemoveTestFiles(c)
         IN  IF CalculateUsage(tested) <= budget THEN tested
             ELSE LET limited == LimitItems(tested)
                  IN  IF CalculateUsage(limited) <= budget THEN limited
                      ELSE AggressivePrune(limited, budget)

\* the items the buckets of a small ContextData handed to prune are filled
\* from: contents of 8, 4 and 3 characters, one symbol of a test file
PruneItems ==
    LET symbols == { SymbolItem(<<"Button">>, <<"src/", "a.tsx">>, <<"xxxxxxxx">>),
                     SymbolItem(<<"ButtonTest">>, <<"src/a", ".test.", "tsx">>,
                                <<"xxxxxxxx">>),
                     SymbolItem(<<"Tiny">>, <<"src/", "b.tsx">>, <<"xxx">>) }
    IN  [relevant_symbols |-> symbols,
         similar_symbols |-> symbols,
         types |-> { DefinitionItem(<<"Props">>, <<"xxxxxxxx">>, "interface") },
         constants |-> { ConstantItem(<<"MAX">>, <<"xxxx">>, "const") },
         design_tokens |-> { TokenItem(<<"primary">>, <<"xxxx">>) },
         schemas |-> { DefinitionItem(<<"UserSchema">>, <<"xxxxxxxx">>, "schema") }]

\* the i-th item of a bucket filled past MAX_ITEMS: 4 characters of content
NumberedItem(bucket, i) ==
    CASE bucket \in {"relevant_symbols", "similar_symbols"} ->
           SymbolItem(<<"S", ToString(i)>>, <<"src/", ToString(i), ".ts">>, <<"xxxx">>)
      [] bucket \in {"types", "schemas"} ->
           DefinitionItem(<<"T", ToString(i)>>, <<"xxxx">>, "interface")
      [] bucket = "constants" -> ConstantItem(<<"C", ToString(i)>>, <<"xxxx">>, "const")
      [] bucket = "design_tokens" -> TokenItem(<<"D", ToString(i)>>, <<"xxxx">>)

\* the contexts in which some buckets hold MAX_ITEMS + 1 items, the others none
FullContexts ==
    {[b \in DOMAIN EmptyContext |->
         IF b \in S THEN [i \in 1..(MAX_ITEMS + 1) |-> NumberedItem(b, i)] ELSE <<>>] :
     S \in (SUBSET DOMAIN EmptyContext) \ {{}}}

\* the same with a symbol of a test file, 8 characters of content, at the
\* head of the relevant bucket
FullContextsWithTest ==
    {[c EXCEPT !.relevant_symbols =
                  <<SymbolItem(<<"ButtonTest">>, <<"src/a", ".test.", "tsx">>,
                               <<"xxxxxxxx">>)>> \o @] : c \in FullContexts}

PruneContexts ==
    ContextsUpTo(PruneItems, MaxPruneItems) \cup FullContexts \cup FullContextsWithTest

\* the budgets a SmartPruner is built with: small ones, and those a bucket
\* of MAX_ITEMS or MAX_ITEMS + 1 items, or two of them, just fit
TokenBudgets ==
    (0..MaxBudget) \cup {MAX_ITEMS, MAX_ITEMS + 1, 2 * MAX_ITEMS, 2 * MAX_ITEMS + 1}

\* pruner.rs:15-42: one call of prune
PruneCall ==
    /\ shrinkPc = "start"
    /\ contextBefore' = context
    /\ context' = Prune(context, tokenBudget)
    /\ shrinkPc' = "done"
    /\ UNCHANGED <<dedupRuns, tokenBudget>>
    /\ UNCHANGED <<bepVars, planVars, workerVars, questionVars, auditVars, retryVars>>

\* prune called on a SmartPruner::new(token_budget)
InitPrune ==
    /\ registry = PromptRegistryNew
    /\ BepIdle
    /\ PlanIdle
    /\ WorkerIdle
    /\ SearchIdle
    /\ LoopIdle
    /\ shrinkPc = "start"
    /\ context \in PruneContexts
    /\ contextBefore = context
    /\ dedupRuns = 0
    /\ tokenBudget \in TokenBudgets
    /\ AuditIdle
    /\ RetryIdle

NextPrune == PruneCall

SpecPrune == InitPrune /\ [][NextPrune]_vars

\* ------------------------------------------------------------------ audit()
\* context_auditor.rs:27: audit does nothing at this combined count or below
GlobalGate == 12
\* context_auditor.rs:54: audit_category does nothing at this count or below
CategoryGate == 8
\* the largest category of the inputs
MaxAuditItems == 9

\* a category of n items; an item is known by its place in the input
ItemsOf(n) == [i \in 1..n |-> i]

\* the category sizes of the inputs: empty, small, at the gate, over the gate
CategorySizes == {0, CategoryGate \div 2, CategoryGate, MaxAuditItems}

GatheredContexts ==
    {[components |-> ItemsOf(a), helpers |-> ItemsOf(b),
      types |-> ItemsOf(c), schemas |-> ItemsOf(d)] :
        a \in CategorySizes, b \in CategorySizes,
        c \in CategorySizes, d \in CategorySizes}

\* context_auditor.rs:23-26
CombinedCount(g) ==
    Len(g.components) + Len(g.helpers) + Len(g.types) + Len(g.schemas)

\* usize from a JSON value: a number that is not negative
DeUsize(j) ==
    IF j.jt = "number" /\ j.n >= 0 THEN ParseOk(j.n) ELSE ParseErr

\* Vec<usize> from a JSON value
DeIndices(j) ==
    IF j.jt = "array"
    THEN DeVec([i \in 1..Len(j.items) |-> DeUsize(j.items[i])])
    ELSE ParseErr

\* context_auditor.rs:136-140: AuditDecision from a JSON value. An object
\* gives keep_indices from its member of that name, the default (empty) when
\* the member is missing, other members ignored; an array gives it from its
\* only element, the default when it has none
DeAuditDecision(j) ==
    CASE j.jt = "object" ->
             IF HasMember(j, "keep_indices")
             THEN DeIndices(j.m.keep_indices)
             ELSE ParseOk(<<>>)
      [] j.jt = "array" ->
             IF Len(j.items) = 0 THEN ParseOk(<<>>)
             ELSE IF Len(j.items) = 1 THEN DeIndices(j.items[1])
             ELSE ParseErr
      [] OTHER -> ParseErr

\* serde_json::from_str::<AuditDecision>
FromStrAuditDecision(s) ==
    LET v == FromStrValue(s)
    IN  IF v.ok THEN DeAuditDecision(v.v) ELSE ParseErr

\* context_auditor.rs:107-116: the decision of a reply, from the text without
\* its fences or else from the trimmed text
ParseDecision(content) ==
    LET raw == Trim(content)
        clean == StripFences(content)
        first == FromStrAuditDecision(clean)
    IN  IF first.ok THEN first ELSE FromStrAuditDecision(raw)

\* a slip in the indexing: idx counted from 1
Get_FromOne(items, idx) ==
    IF 1 <= idx /\ idx <= Len(items) THEN Some(items[idx]) ELSE None

\* Vec::get(idx), idx counted from 0
Get(items, idx) ==
    IF idx < Len(items) THEN Some(items[idx + 1]) ELSE None

\* context_auditor.rs:122-127: the items at the indices, in the order of the
\* indices, an index out of range skipped
RECURSIVE NewItems(_, _)
NewItems(items, keep_indices) ==
    IF keep_indices = <<>> THEN <<>>
    ELSE Get(items, Head(keep_indices)) \o NewItems(items, Tail(keep_indices))

\* a slip in the last test: the category is replaced even by nothing
ApplyDecision_MayEmpty(items, keep_indices) ==
    IF keep_indices = <<>> THEN items ELSE NewItems(items, keep_indices)

\* context_auditor.rs:118-130: the category after a decoded decision
ApplyDecision(items, keep_indices) ==
    IF keep_indices = <<>> THEN items
    ELSE LET new_items == NewItems(items, keep_indices)
         IN  IF new_items # <<>> THEN new_items ELSE items

\* context_auditor.rs:54-56
CategoryQualifies(items) == ~(Len(items) <= CategoryGate)

\* a slip in the gate of audit: the gate is never closed
GlobalQualifies_Always(g) == TRUE

\* context_auditor.rs:23-30
GlobalQualifies(g) == ~(CombinedCount(g) <= GlobalGate)

\* the category audited after c; "done" after the last
NextCategory(c) ==
    LET i == CHOOSE i \in 1..Len(AuditCategories) : AuditCategories[i] = c
    IN  IF i < Len(AuditCategories) THEN AuditCategories[i + 1] ELSE "done"

\* a slip at the call of audit_category: `?` for `.ok()`
AfterCategory_Propagate(c, result) ==
    IF result = "err" THEN "done" ELSE NextCategory(c)

\* context_auditor.rs:32-45: `.await.ok()` drops the Result of audit_category
AfterCategory(c, result) == NextCategory(c)

\* what audit returns when it stops after category c (45: Ok(()))
ReturnAfter(pc) == IF pc = "done" THEN "Ok" ELSE "none"

\* the index lists the model answers with: some items, reordered, one item
\* twice, one item more often than the category is long, out of range only,
\* in range and out of range, nothing, a negative number
IndexLists ==
    {<<JNum(0), JNum(2)>>,
     <<JNum(2), JNum(0)>>,
     <<JNum(0), JNum(0)>>,
     [i \in 1..(MaxAuditItems + 1) |-> JNum(0)],
     <<JNum(MaxAuditItems)>>,
     <<JNum(1), JNum(MaxAuditItems)>>,
     <<>>,
     <<JNum(0 - 1)>>}

AuditPayloads ==
    {JObj([keep_indices |-> JArr(l)]) : l \in IndexLists}
        \cup {JObj([reason |-> JText(<<Ch("x")>>)]),
              JArr(<<JArr(<<JNum(1)>>)>>),
              NotJson}

\* the replies of the text-generation call: every payload bare, one of them
\* fenced and one behind a line of prose as well
AuditReplyChoices ==
    {Reply("bare", p) : p \in AuditPayloads}
        \cup {Reply("fenced_json", JObj([keep_indices |-> JArr(<<JNum(0), JNum(2)>>)])),
              Reply("prose_prefixed", JObj([keep_indices |-> JArr(<<JNum(0), JNum(2)>>)]))}

\* context_auditor.rs:17-30: audit is entered; at the gate or below it
\* returns Ok(()) at once, above it the first category is next
AuditEnter ==
    /\ auditPc = "start"
    /\ IF GlobalQualifies(gathered)
       THEN /\ auditPc' = AuditCategories[1]
            /\ auditReturn' = "none"
       ELSE /\ auditPc' = "done"
            /\ auditReturn' = "Ok"
    /\ UNCHANGED <<gathered, gatheredBefore, auditReplies, auditResults, auditCalls>>
    /\ UNCHANGED <<bepVars, planVars, workerVars, questionVars, shrinkVars, retryVars>>

\* context_auditor.rs:54-56: audit_category on a category at the gate or
\* below: Ok(()) with no call made
AuditCategorySkip ==
    /\ auditPc \in DOMAIN gathered
    /\ ~CategoryQualifies(gathered[auditPc])
    /\ auditResults' = [auditResults EXCEPT ![auditPc] = "ok"]
    /\ auditPc' = AfterCategory(auditPc, "ok")
    /\ auditReturn' = ReturnAfter(auditPc')
    /\ UNCHANGED <<gathered, gatheredBefore, auditReplies, auditCalls>>
    /\ UNCHANGED <<bepVars, planVars, workerVars, questionVars, shrinkVars, retryVars>>

\* context_auditor.rs:101-105: the text-generation call of a category fails
\* and `?` returns the error from audit_category
AuditCategoryCallFails ==
    /\ auditPc \in DOMAIN gathered
    /\ CategoryQualifies(gathered[auditPc])
    /\ auditCalls' = [auditCalls EXCEPT ![auditPc] = @ + 1]
    /\ auditReplies' = [auditReplies EXCEPT ![auditPc] = FailedReply]
    /\ auditResults' = [auditResults EXCEPT ![auditPc] = "err"]
    /\ auditPc' = AfterCategory(auditPc, "err")
    /\ auditReturn' = ReturnAfter(auditPc')
    /\ UNCHANGED <<gathered, gatheredBefore>>
    /\ UNCHANGED <<bepVars, planVars, workerVars, questionVars, shrinkVars, retryVars>>

\* context_auditor.rs:101-132: the text-generation call of a category is
\* answered; a reply that does not decode returns an error from
\* audit_category, a decoded one is applied to the category
AuditCategoryReply ==
    /\ auditPc \in DOMAIN gathered
    /\ CategoryQualifies(gathered[auditPc])
    /\ \E reply \in AuditReplyChoices :
         LET parsed == ParseDecision(reply.content)
             result == IF parsed.ok THEN "ok" ELSE "err"
         IN  /\ auditCalls' = [auditCalls EXCEPT ![auditPc] = @ + 1]
             /\ auditReplies' = [auditReplies EXCEPT ![auditPc] = reply]
             /\ auditResults' = [auditResults EXCEPT ![auditPc] = result]
             /\ gathered' =
                    IF parsed.ok
                    THEN [gathered EXCEPT
                              ![auditPc] = ApplyDecision(@, parsed.v)]
                    ELSE gathered
             /\ auditPc' = AfterCategory(auditPc, result)
             /\ auditReturn' = ReturnAfter(auditPc')
    /\ UNCHANGED gatheredBefore
    /\ UNCHANGED <<bepVars, planVars, workerVars, questionVars, shrinkVars, retryVars>>

\* audit called on a gathered context
InitAudit ==
    /\ registry = PromptRegistryNew
    /\ BepIdle
    /\ PlanIdle
    /\ WorkerIdle
    /\ SearchIdle
    /\ LoopIdle
    /\ ShrinkIdle
    /\ RetryIdle
    /\ auditPc = "start"
    /\ gathered \in GatheredContexts
    /\ gatheredBefore = gathered
    /\ auditReplies = [c \in DOMAIN EmptyGathered |-> NoReply]
    /\ auditResults = [c \in DOMAIN EmptyGathered |-> "none"]
    /\ auditReturn = "none"
    /\ auditCalls = [c \in DOMAIN EmptyGathered |-> 0]

NextAudit ==
    \/ AuditEnter
    \/ AuditCategorySkip
    \/ AuditCategoryCallFails
    \/ AuditCategoryReply

SpecAudit == InitAudit /\ [][NextAudit]_vars

\* ------------------------------------------------------------------ call_api
\* gemini.rs:29: max_retries of a GeminiClient
GeminiMaxRetries == 5
\* gemini.rs:30: base_delay, in ms
BaseDelayMs == 2000
\* gemini.rs:47: the jitter is the clock's nanoseconds modulo this, in ms
JitterModulus == 1000

\* gemini.rs:44-49  generate_jitter, from the nanoseconds of the clock
GenerateJitter(nanos) == nanos % JitterModulus

\* the clock readings of the inputs: the ends of the jitter's range
ClockNanos == {JitterModulus, 2 * JitterModulus - 1}

RECURSIVE Pow2(_)
Pow2(n) == IF n = 0 THEN 1 ELSE 2 * Pow2(n - 1)

\* a slip in the backoff: the delay grows by base_delay with every failure
TotalDelay_Linear(n, jitter) == BaseDelayMs * n + jitter

\* gemini.rs:106-108: total_delay of the retry after the n-th failure
TotalDelay(n, jitter) == BaseDelayMs * Pow2(n - 1) + jitter

\* the Result of perform_api_call and of call_api
CallOk(text) == [returned |-> TRUE, ok |-> TRUE, text |-> text]
CallErr(e) == [returned |-> TRUE, ok |-> FALSE, error |-> e]

\* Value[key] and Value[i]: Null for what is not there
IndexKey(j, key) == IF HasMember(j, key) THEN j.m[key] ELSE JNull
IndexAt(j, i) ==
    IF j.jt = "array" /\ i < Len(j.items) THEN j.items[i + 1] ELSE JNull

\* gemini.rs:146: response_json["candidates"][0]["content"]["parts"][0]["text"]
ResponseText(j) ==
    IndexKey(IndexAt(IndexKey(IndexKey(IndexAt(IndexKey(j, "candidates"), 0),
                                       "content"), "parts"), 0), "text")

\* StatusCode::is_success, is_server_error
IsSuccess(status) == status >= 200 /\ status < 300
IsServerError(status) == status >= 500 /\ status < 600

\* gemini.rs:120-152  perform_api_call on what the transport gives back
PerformApiCall(response) ==
    IF ~response.sent
    THEN CallErr(ApiError("Failed to send request to Gemini API", 0))
    ELSE IF ~IsSuccess(response.status)
    THEN IF IsServerError(response.status)
         THEN CallErr(ApiError("Gemini API server error", response.status))
         ELSE CallErr(ApiError("Gemini API error", response.status))
    ELSE IF response.body = NotJson
    THEN CallErr(ApiError("Failed to parse Gemini API response", 0))
    ELSE IF ~IsJString(ResponseText(response.body))
    THEN CallErr(ApiError("Failed to extract text from Gemini response", 0))
    ELSE CallOk(ResponseText(response.body).txt)

\* a response body that carries a text
BodyWithText(t) ==
    JObj([candidates |-> JArr(<<JObj([content |->
              JObj([parts |-> JArr(<<JObj([text |-> JText(t)])>>)])])>>)])

\* what the transport gives back: nothing, a client or server error status,
\* a success whose body is not JSON, has no candidate or carries a text
ApiResponses ==
    {[sent |-> FALSE]}
        \cup {[sent |-> TRUE, status |-> s, body |-> NotJson] : s \in {400, 429, 503}}
        \cup {[sent |-> TRUE, status |-> 200, body |-> b] :
                 b \in {NotJson, JObj([candidates |-> JArr(<<>>)]),
                        BodyWithText(<<Ch("x")>>)}}

\* a slip in the test after a failure: `>=` for `>`
RetriesExhausted_Early(n) == n >= GeminiMaxRetries

\* gemini.rs:101
RetriesExhausted(n) == n > GeminiMaxRetries

\* gemini.rs:88-113: one pass of the retry loop: the jitter is drawn, the
\* API is called; a success returns it, a failure counts the attempt and
\* either returns the error or starts the sleep before the next pass
CallAttempt ==
    /\ callPc = "attempt"
    /\ callAttempt <= GeminiMaxRetries
    /\ \E nanos \in ClockNanos, response \in ApiResponses :
         LET jitter == GenerateJitter(nanos)
             result == PerformApiCall(response)
             failed == callAttempt + 1
         IN  /\ callJitter' = jitter
             /\ apiCalls' = apiCalls + 1
             /\ IF result.ok
                THEN /\ callResult' = result
                     /\ callPc' = "done"
                     /\ UNCHANGED <<callAttempt, callErrors, lastError, sleeps>>
                ELSE /\ callAttempt' = failed
                     /\ callErrors' = callErrors \cup {result.error}
                     /\ lastError' = result.error
                     /\ IF RetriesExhausted(failed)
                        THEN /\ callResult' = result
                             /\ callPc' = "done"
                             /\ UNCHANGED sleeps
                        ELSE /\ sleeps' = Append(sleeps, TotalDelay(failed, jitter))
                             /\ callPc' = "sleep"
                             /\ UNCHANGED callResult
    /\ UNCHANGED <<bepVars, planVars, workerVars, questionVars, shrinkVars, auditVars>>

\* gemini.rs:111: the sleep ends and the loop tests its condition
CallWake ==
    /\ callPc = "sleep"
    /\ callPc' = "attempt"
    /\ UNCHANGED <<callAttempt, callJitter, apiCalls, callErrors, lastError,
                   sleeps, callResult>>
    /\ UNCHANGED <<bepVars, planVars, workerVars, questionVars, shrinkVars, auditVars>>

\* gemini.rs:116-117: the loop is left by its condition
CallFallThrough ==
    /\ callPc = "attempt"
    /\ ~(callAttempt <= GeminiMaxRetries)
    /\ callResult' = CallErr(ApiError("Unexpected error after retries", 0))
    /\ callPc' = "done"
    /\ UNCHANGED <<callAttempt, callJitter, apiCalls, callErrors, lastError, sleeps>>
    /\ UNCHANGED <<bepVars, planVars, workerVars, questionVars, shrinkVars, auditVars>>

\* call_api on a GeminiClient::new(config), attempt = 0 (gemini.rs:86)
InitRetry ==
    /\ registry = PromptRegistryNew
    /\ BepIdle
    /\ PlanIdle
    /\ WorkerIdle
    /\ SearchIdle
    /\ LoopIdle
    /\ ShrinkIdle
    /\ AuditIdle
    /\ callPc = "attempt"
    /\ callAttempt = 0
    /\ callJitter = 0
    /\ apiCalls = 0
    /\ callErrors = {}
    /\ lastError = NoApiError
    /\ sleeps = <<>>
    /\ callResult = NoCallResult

NextRetry ==
    \/ CallAttempt
    \/ CallWake

SpecRetry == InitRetry /\ [][NextRetry]_vars

\* ------------------------------------------------------------------ helpers of the properties
Count(x, s) == Cardinality({i \in 1..Len(s) : s[i] = x})

Elems(s) == {s[i] : i \in 1..Len(s)}

IsPermutation(a, b) ==
    /\ Len(a) = Len(b)
    /\ \A x \in Elems(a) \cup Elems(b) : Count(x, a) = Count(x, b)

\* keys reachable from the keys of S along declared dependencies
RECURSIVE DepClosure(_, _)
DepClosure(reg, S) ==
    LET nxt == S \cup UNION {reg[k].dependencies : k \in S \cap DOMAIN reg}
    IN  IF nxt = S THEN S ELSE DepClosure(reg, nxt)

Acyclic(reg) ==
    \A k \in DOMAIN reg : k \notin DepClosure(reg, reg[k].dependencies)

\* some occurrence of d precedes position i of order
Precedes(order, d, i) == \E j \in 1..(i - 1) : order[j] = d

\* ------------------------------------------------------------------ scheduler properties
\* C1: build_execution_plan returns a permutation of its input, the same ids
\* with the same multiplicities, for every registry (cyclic dependencies and
\* unregistered ids included).
C1_Permutation ==
    /\ bepPc = "done" => IsPermutation(executionOrder, workerIds)
    /\ planPc = "done" =>
          IsPermutation(planResult.plan.execution_plan, WorkerIdsOf(planResult.plan))

C1_Witness ==
    /\ bepPc = "done"
    /\ workerIds = <<"A", "B", "C">>
    /\ DOMAIN registry = {"A", "B"}
    /\ "B" \in registry["A"].dependencies
    /\ "A" \in registry["B"].dependencies

\* C2: for an acyclic registry, every id of the output comes after all of its
\* declared dependencies that are present in the input.
C2_TopologicalOrder ==
    (bepPc = "done" /\ Acyclic(registry)) =>
        \A i \in 1..Len(executionOrder) :
            HasPrompt(registry, executionOrder[i]) =>
                \A d \in registry[executionOrder[i]].dependencies \cap Elems(workerIds) :
                    Precedes(executionOrder, d, i)

\* C3: build_execution_plan terminates: each pass of the loop removes at least
\* one remaining id, having progressed or being the last pass, so the loop
\* runs at most once per input id.
C3_PassShrinksRemaining ==
    /\ [](passes <= Len(workerIds))
    /\ [][(bepPc = "loop" /\ passes' = passes + 1) =>
             /\ Len(remaining') < Len(remaining)
             /\ (progressed' \/ remaining' = <<>>)]_vars

C3_Witness ==
    /\ bepPc = "done"
    /\ workerIds = <<"A", "B">>
    /\ DOMAIN registry = {"A", "B"}
    /\ "B" \in registry["A"].dependencies
    /\ "A" \in registry["B"].dependencies
    /\ passes = 1
    /\ ~progressed

\* C4: an id absent from the registry that occurs once in the input occurs
\* exactly once in the schedule, from the first pass on, wherever it stands in
\* the input.
C4_UnknownWorkerOnce ==
    passes >= 1 =>
        \A i \in 1..Len(workerIds) :
            (~HasPrompt(registry, workerIds[i]) /\ Count(workerIds[i], workerIds) = 1)
                => Count(workerIds[i], executionOrder) = 1

C4_Witness ==
    /\ bepPc = "done"
    /\ workerIds = <<"A", "B", "C">>
    /\ DOMAIN registry = {"A", "B"}
    /\ registry["A"].dependencies = {"B"}
    /\ registry["B"].dependencies = {}
    /\ executionOrder = <<"B", "C", "A">>

\* ------------------------------------------------------------------ planner properties
\* the planning reply does not decode to a SearchPlan, or decodes to an empty one
PlanReplyUnusable ==
    /\ planReply.call = "ok"
    /\ \/ planReply.wrapper \notin JsonWrappers
       \/ ~DeSearchPlan(planReply.payload).ok
       \/ IsEmptyPlan(DeSearchPlan(planReply.payload).v)

\* C5: when the planning reply cannot be parsed as a SearchPlan, or parses to
\* an empty plan, plan() returns the fallback plan: intent "fallback_plan", one
\* search query equal to the raw user task, and the first three (at most)
\* recommended workers of the task type, in order, each with that one query.
C5_FallbackPlan ==
    (planPc = "done" /\ PlanReplyUnusable) =>
        LET p == planResult.plan
            recommended == GetRecommendedPrompts(taskType)
        IN  /\ p.global_intent = <<Ch("fallback_plan")>>
            /\ Len(p.search_queries) = 1
            /\ p.search_queries[1].query = userPrompt
            /\ Len(p.workers) <= 3
            /\ Len(p.workers) <= Len(recommended)
            /\ \A i \in 1..Len(p.workers) :
                  /\ p.workers[i].worker_id = recommended[i]
                  /\ Len(p.workers[i].queries) = 1
                  /\ p.workers[i].queries[1].query = userPrompt
            /\ Len(p.workers) = 3 \/ Len(p.workers) = Len(recommended)

C5_Witness ==
    /\ planPc = "done"
    /\ planReply.call = "ok"
    /\ planReply.payload = NotJson
    /\ taskType = "bugfix"
    /\ userPrompt = <<Ch("a")>>
    /\ WorkerIdsOf(planResult.plan) = <<"error_analyzer", "test_scanner", "frontend_scanner">>

\* C6: a failed text-generation call, for classification or for planning,
\* does not make plan() return an error.
C6_DegradeNotAbort ==
    (classifyReply.call = "failed" \/ planReply.call = "failed") => planPc # "error"

\* C7: classify_task returns the reply's task_type when the reply is JSON
\* (fenced or not) carrying a string task_type and "feature" in every other
\* case, and no reply content makes it fail.
C7_ClassifyTotal ==
    classifyReply.call = "ok" =>
        /\ planPc = "classified"
        /\ planError = ""
        /\ LET body == classifyReply.payload
           IN  taskType =
                 IF /\ classifyReply.wrapper \in JsonWrappers
                    /\ body.jt = "object"
                    /\ "task_type" \in DOMAIN body.m
                    /\ body.m.task_type.jt = "string"
                 THEN body.m.task_type.s
                 ELSE "feature"

C7_Witness ==
    /\ planPc = "classified"
    /\ classifyReply.call = "ok"
    /\ classifyReply.wrapper = "fenced_json"
    /\ taskType = "bugfix"

\* C8 as claimed: every SearchQuery of a plan returned by plan() has a
\* non-empty query string.
C8_NoEmptyQuery ==
    planPc = "done" =>
        \A i \in 1..Len(PlanQueryTexts(planResult.plan)) :
            PlanQueryTexts(planResult.plan)[i] # <<>>

\* C8 as amended: the query strings that all_query_strings returns for a plan
\* returned by plan() are non-empty and trimmed, one for each query of the
\* plan that is not blank; the plan itself may hold empty queries.
C8_FlattenedQueriesNonEmpty ==
    planPc = "done" =>
        LET all == PlanQueryTexts(planResult.plan)
            out == AllQueryStrings(planResult.plan)
        IN  /\ \A i \in 1..Len(out) : out[i] # <<>> /\ out[i][1] # Ws /\ out[i][Len(out[i])] # Ws
            /\ Len(out) = Cardinality({i \in 1..Len(all) : \E j \in 1..Len(all[i]) : all[i][j] # Ws})

C8_Witness ==
    /\ planPc = "done"
    /\ planResult.arm = "authored"
    /\ \E i \in 1..Len(PlanQueryTexts(planResult.plan)) :
          PlanQueryTexts(planResult.plan)[i] = <<>>
    /\ AllQueryStrings(planResult.plan) = <<<<Ch("a")>>>>

\* ------------------------------------------------------------------ worker properties
\* C9: execute with a key that is not in the registry fails with the
\* configuration error, returns no WorkerResult and makes no text-generation call.
C9_UnknownKeyConfigError ==
    (workerPc \notin {"idle", "start"} /\ ~HasPrompt(registry, promptKey)) =>
        /\ workerPc = "error"
        /\ workerError.variant = "Config"
        /\ workerResult = None
        /\ workerLlmCalls = 0

\* the worker reply is not a JSON array: its body is no array, or prose precedes it
WorkerReplyNotArray ==
    /\ workerReply.call = "ok"
    /\ \/ workerReply.payload.jt # "array"
       \/ workerReply.wrapper = "prose_prefixed"

\* C10: when the worker reply does not parse as a JSON array, execute succeeds
\* with exactly one chunk: its content is the whole raw reply, its metadata
\* carries fallback = true and its file path is "<worker_key>_analysis.txt".
C10_FallbackChunk ==
    WorkerReplyNotArray =>
        /\ workerPc = "done"
        /\ workerError = NoError
        /\ workerResult # None
        /\ LET chunks == workerResult[1].chunks
           IN  /\ Len(chunks) = 1
               /\ chunks[1].content = workerReply.content
               /\ "fallback" \in DOMAIN chunks[1].metadata.m
               /\ chunks[1].metadata.m.fallback = JBool(TRUE)
               /\ chunks[1].file_path = <<promptKey, "_analysis.txt">>

C10_Witness ==
    /\ workerPc = "done"
    /\ promptKey = "data_scanner"
    /\ workerReply.call = "ok"
    /\ workerReply.wrapper = "padded"
    /\ workerReply.payload = NotJson
    /\ Len(workerResult[1].chunks) = 1

\* ------------------------------------------------------------------ C11, C12
\* the worker reply decodes as a JSON array: an array, bare or padded with blanks
WorkerReplyIsArray ==
    /\ workerPc = "done"
    /\ workerReply.call = "ok"
    /\ workerReply.payload.jt = "array"
    /\ workerReply.wrapper \in {"bare", "padded"}

\* the members of an array element, none when the element is no object
MembersOf(item) == IF item.jt = "object" THEN item.m ELSE <<>>

\* the member named first when the element has it, else the member named second
FirstNamed(members, a, b) ==
    IF a \in DOMAIN members THEN members[a]
    ELSE IF b \in DOMAIN members THEN members[b]
    ELSE JNull

\* the chunk fields the claim gives to an array element
ChunkHasFieldsOf(chunk, item) ==
    LET members == MembersOf(item)
        content == FirstNamed(members, "content", "definition")
        file_path == FirstNamed(members, "file_path", "path")
        language == FirstNamed(members, "language", "language")
        kind == FirstNamed(members, "kind", "type")
    IN  /\ chunk.content = IF content.jt = "string" THEN content.txt ELSE <<>>
        /\ chunk.file_path = IF file_path.jt = "string" THEN <<file_path.s>> ELSE <<"">>
        /\ chunk.language = IF language.jt = "string" THEN <<language.s>> ELSE <<"unknown">>
        /\ chunk.kind = IF kind.jt = "string" THEN <<kind.s>> ELSE <<"unknown">>
        /\ chunk.start_line = 0
        /\ chunk.end_line = 0

IsObject(item) == item.jt = "object"

\* C11 (as stated): a reply that parses as a JSON array yields one chunk per
\* array element: content from "content" else "definition" (default empty),
\* file_path from "file_path" else "path" (default empty), language default
\* "unknown", kind from "kind" else "type" (default "unknown"), line numbers 0.
C11_OneChunkPerElement ==
    WorkerReplyIsArray =>
        LET items == workerReply.payload.items
            chunks == workerResult[1].chunks
        IN  /\ Len(chunks) = Len(items)
            /\ \A i \in 1..Len(items) :
                  i <= Len(chunks) => ChunkHasFieldsOf(chunks[i], items[i])

\* C11 (amended): a reply that parses as a JSON array yields one chunk per
\* array element that is a JSON object, in array order, and no chunk for any
\* other element; the k-th chunk (from 0) has the id "<worker_key>-<k>" and
\* takes its fields from its object as the claim says, the default standing in
\* whenever the member taken is missing or is not a string.
C11_ChunkPerObject ==
    WorkerReplyIsArray =>
        LET objects == SelectSeq(workerReply.payload.items, IsObject)
            chunks == workerResult[1].chunks
        IN  /\ workerError = NoError
            /\ Len(chunks) = Len(objects)
            /\ \A k \in 1..Len(objects) :
                  /\ ChunkHasFieldsOf(chunks[k], objects[k])
                  /\ chunks[k].id = <<promptKey, "-", ToString(k - 1)>>

\* an array holding a number and then an object that has "definition" beside
\* a "content" that is no string: one chunk, of the object, with empty content
C11_Witness ==
    /\ WorkerReplyIsArray
    /\ workerReply.wrapper = "bare"
    /\ workerReply.payload.items =
          <<JNum(1), JObj([content |-> JNum(1), definition |-> JText(<<Ch("type")>>)])>>
    /\ Len(workerResult[1].chunks) = 1
    /\ workerResult[1].chunks[1].content = <<>>
    /\ workerResult[1].chunks[1].kind = <<"unknown">>

\* C12: a worker reply whose JSON array is wrapped in a ```json fence yields
\* the chunks of the array itself, as the same array sent bare does.
C12_FencedArraySameChunks ==
    (/\ workerPc = "done"
     /\ workerReply.call = "ok"
     /\ workerReply.wrapper = "fenced_json"
     /\ workerReply.payload.jt = "array")
        => workerResult[1].chunks =
              ParseLlmResponse(promptKey, Wrap("bare", BodyTokens(workerReply.payload)))

\* ------------------------------------------------------------------ C19, C20
\* the similarity backend answered
VectorAnswered == backends.vector.call = "ok"

\* the graph backend failed: every call made to it returned an error
GraphFailed ==
    /\ ~backends.graph.ok
    /\ \A i \in 1..Len(backends.byName) : ~backends.byName[i].ok

\* C19: a failure of one retrieval backend is no error of the search: the
\* failing backend contributes nothing and the results of the other backend
\* are still returned; when both fail the result is empty.
C19_BackendFailureTolerated ==
    searchPc = "done" =>
        /\ (~VectorAnswered /\ backends.graph.ok) => results = backends.graph.v
        /\ (VectorAnswered /\ GraphFailed) =>
              \A i \in 1..Len(backends.vector.hits) :
                  \E j \in 1..Len(results) : results[j].name = backends.vector.hits[i]
        /\ (backends.vector.call = "failed" /\ GraphFailed) => results = <<>>

\* C20: the merged result of a search holds no two entries of the same
\* (name, file_path).
C20_NoDuplicateEntries ==
    searchPc = "done" =>
        \A i, j \in 1..Len(results) :
            (results[i].name = results[j].name
                /\ results[i].file_path = results[j].file_path) => i = j

\* ------------------------------------------------------------------ C13..C18
\* execute_single_question is between two of its calls
QuestionRunning == loopPc \in {"search", "verify", "reformulate"}

\* an upper bound on the calls execute_single_question can still make
CallsLeft ==
    IF QuestionRunning
    THEN 3 * (max_retries - 1 - attempt)
            + (CASE loopPc = "search" -> 3
                 [] loopPc = "verify" -> 2
                 [] loopPc = "reformulate" -> 1)
    ELSE 0

\* C13: for one question the loop terminates and makes at most max_retries
\* attempts: no more than max_retries searches, max_retries verification
\* calls and max_retries reformulation calls; every call it makes lowers a
\* non-negative bound on the calls still to come.
C13_BoundedAttempts ==
    [][ /\ searchCalls' <= max_retries
        /\ verifyCalls' <= max_retries
        /\ reformulateCalls' <= max_retries
        /\ attempt' < max_retries
        /\ QuestionRunning => (CallsLeft' < CallsLeft /\ CallsLeft' >= 0) ]_vars

\* the worst case: three searches, three verifications, two reformulations
C13_Witness ==
    /\ loopPc = "returned"
    /\ searchCalls = max_retries
    /\ verifyCalls = max_retries
    /\ reformulateCalls = max_retries - 1

\* the verification of the current attempt came out correct
VerifiedCorrect == verification # None /\ verification[1].is_correct

\* C14: when the search result of an attempt is non-empty and its verification
\* returns is_correct = true, the outcome is Found with a single answer of
\* confidence 1.0 carrying exactly that attempt's symbols, and no further
\* search, verify or reformulate call is made.
C14_FoundIsTerminal ==
    VerifiedCorrect =>
        /\ searchResults # <<>>
        /\ loopPc = "returned"
        /\ outcome.kind = "Found"
        /\ outcome.answers =
              <<[question |-> question.question, symbols |-> searchResults,
                 confidence |-> 10]>>
        /\ searchCalls = attempt + 1
        /\ ~ENABLED LoopCalls

\* nothing found on attempts 1 and 2, one match on attempt 3, verified correct
C14_Witness ==
    /\ loopPc = "returned"
    /\ questions[qIndex].search_query = <<Ch("Button")>>
    /\ attempt = 2
    /\ searchCalls = 3
    /\ reformulateCalls = 2
    /\ verifyCalls = 1
    /\ verifyReply.call = "ok"
    /\ verifyReply.payload = JObj([is_correct |-> JBool(TRUE), reason |-> JStr("match")])
    /\ outcome.kind = "Found"
    /\ Len(outcome.answers) = 1
    /\ Len(outcome.answers[1].symbols) = 1
    /\ outcome.answers[1].confidence = 10

\* the search of the final attempt has been made
FinalSearchDone == attempt = max_retries - 1 /\ searchCalls = max_retries

\* C15: on the final attempt an empty result set gives NotFound, a non-empty
\* one verified not correct gives PartiallyFound with confidence 0.5 carrying
\* that attempt's symbols, and no reformulation call follows the final search.
C15_FinalAttempt ==
    /\ (FinalSearchDone /\ searchResults = <<>>) =>
          (loopPc = "returned" /\ outcome = [kind |-> "NotFound"])
    /\ (FinalSearchDone /\ verification # None /\ ~verification[1].is_correct) =>
          /\ loopPc = "returned"
          /\ searchResults # <<>>
          /\ outcome.kind = "PartiallyFound"
          /\ outcome.answers =
                <<[question |-> question.question, symbols |-> searchResults,
                   confidence |-> 5]>>
    /\ FinalSearchDone => (loopPc # "reformulate" /\ reformulateCalls = max_retries - 1)
    /\ attempt >= max_retries - 1 => ~ENABLED (Reformulate \/ ReformulateFails)

C15_Witness ==
    /\ loopPc = "returned"
    /\ FinalSearchDone
    /\ Len(searchResults) = 2
    /\ verification # None
    /\ ~verification[1].is_correct
    /\ outcome.kind = "PartiallyFound"

\* the verification reply decodes as {is_correct, reason, suggestion}
VerifyReplyDecodable ==
    /\ verifyReply.wrapper \in JsonWrappers
    /\ verifyReply.payload.jt = "object"
    /\ LET m == verifyReply.payload.m
       IN  /\ "is_correct" \in DOMAIN m
           /\ m.is_correct.jt = "bool"
           /\ "reason" \in DOMAIN m
           /\ m.reason.jt = "string"
           /\ "suggestion" \in DOMAIN m => m.suggestion.jt \in {"string", "null"}

\* C16: when the verification reply cannot be decoded, the attempt proceeds
\* with is_correct = (results is non-empty) and the loop does not fail.
C16_VerificationFailsOpen ==
    (verifyReply.call = "ok" /\ ~VerifyReplyDecodable) =>
        /\ verification # None
        /\ verification[1].is_correct = (searchResults # <<>>)
        /\ verification[1].suggestion = None
        /\ outcome.kind \in {"Found", "PartiallyFound", "NotFound"}
        /\ loopPc = "returned"

\* a reply that says "not correct" but lacks the reason: the attempt is Found
C16_Witness ==
    /\ loopPc = "returned"
    /\ verifyReply.call = "ok"
    /\ verifyReply.wrapper = "bare"
    /\ verifyReply.payload = JObj([is_correct |-> JBool(FALSE)])
    /\ searchResults # <<>>
    /\ verification[1].is_correct
    /\ outcome.kind = "Found"

\* C17: with the text-generation backend unavailable (no call of the question
\* got a reply) the question still ends in Found, PartiallyFound or NotFound,
\* not in an error.
C17_ProgressWithoutBackend ==
    (loopPc = "returned" /\ ~llmReplied) =>
        outcome.kind \in {"Found", "PartiallyFound", "NotFound"}

\* the positions of the processed questions that ended in an answer, in order
Answered == SelectSeq([i \in 1..Len(outcomes) |-> i],
                      LAMBDA i : outcomes[i] \in {"Found", "PartiallyFound"})

\* C18: execute_questions processes every question in input order and always
\* returns: a NotFound or an error of one question adds no answer and stops
\* nothing; the output is the concatenation, in question order, of the Found
\* and PartiallyFound answers, at most one per question.
C18_BatchNeverAborts ==
    loopPc # "idle" =>
        /\ Len(outcomes) = qIndex - 1
        /\ qIndex <= Len(questions) + 1
        /\ loopPc # "done" => ENABLED NextLoop
        /\ loopPc = "done" => Len(outcomes) = Len(questions)
        /\ QuestionRunning => question.question = questions[qIndex].question
        /\ Len(answers) = Len(Answered)
        /\ \A k \in 1..Len(Answered) :
              /\ answers[k].question = questions[Answered[k]].question
              /\ answers[k].symbols # <<>>
              /\ answers[k].confidence =
                    IF outcomes[Answered[k]] = "Found" THEN 10 ELSE 5

\* the first question ends in an error, the second is answered all the same
C18_Witness ==
    /\ loopPc = "done"
    /\ Len(questions) = 2
    /\ questions[1].priority = "Critical"
    /\ outcomes = <<"Err", "PartiallyFound">>
    /\ Len(answers) = 1
    /\ answers[1].question = questions[2].question

\* ------------------------------------------------------------------ C21..C23
\* the buckets deduplicate removes duplicates from, with what the claim keys
\* their items by
PairOf(bucket, item) ==
    CASE bucket \in {"relevant_symbols", "similar_symbols"} -> <<item.name, item.file_path>>
      [] bucket \in {"types", "schemas"} -> <<item.name, item.definition>>
      [] bucket = "constants" -> <<item.name, item.value>>

\* the first occurrence of every key pair among the items, in their order
FirstOfEachPair(bucket, items) ==
    PickFrom(items,
             {i \in 1..Len(items) :
                 \A j \in 1..(i - 1) : PairOf(bucket, items[j]) # PairOf(bucket, items[i])},
             1)

\* C21: deduplicate is idempotent: applied to its own result it returns that
\* result, every bucket with the same items in the same order.
C21_DedupIdempotent ==
    /\ dedupRuns >= 1 => Deduplicate(context) = context
    /\ dedupRuns >= 2 => context = contextBefore

\* deduplicate has been called twice on a context that holds a symbol and a type
C21_Witness ==
    /\ dedupRuns = 2
    /\ Len(context.relevant_symbols) = 1
    /\ Len(context.types) = 1
    /\ context.similar_symbols = <<>>
    /\ context = contextBefore

\* C22: after deduplicate the relevant bucket has no two items of the same
\* (name, file_path), types and schemas none of the same (name, definition),
\* constants none of the same (name, value); of every key the first occurrence
\* survives, and the survivors keep their relative order.
C22_FirstOccurrencePerKey ==
    dedupRuns = 1 =>
        \A bucket \in {"relevant_symbols", "types", "schemas", "constants"} :
            context[bucket] = FirstOfEachPair(bucket, contextBefore[bucket])

\* C23: after deduplicate no item of the similar bucket has the name of an
\* item of the relevant bucket, and the relevant bucket is what it would be
\* were the similar bucket empty.
C23_CrossBucketOneWay ==
    dedupRuns = 1 =>
        /\ \A i \in 1..Len(context.similar_symbols) :
              context.similar_symbols[i].name \notin NamesOf(context.relevant_symbols)
        /\ context.similar_symbols =
              SelectSeq(contextBefore.similar_symbols,
                        LAMBDA s : s.name \notin NamesOf(context.relevant_symbols))
        /\ context.relevant_symbols =
              Deduplicate([contextBefore EXCEPT !.similar_symbols = <<>>]).relevant_symbols

\* a relevant item named "a"; of the similar items the one named "a" goes
C23_Witness ==
    /\ dedupRuns = 1
    /\ Len(contextBefore.relevant_symbols) = 1
    /\ contextBefore.relevant_symbols[1].name = <<"a">>
    /\ Len(contextBefore.similar_symbols) = 2
    /\ contextBefore.similar_symbols[1].name = <<"a">>
    /\ Len(context.similar_symbols) = 1
    /\ context.similar_symbols[1].name = <<"a", ":", "b">>
    /\ context.relevant_symbols = contextBefore.relevant_symbols

\* ------------------------------------------------------------------ C24
\* the buckets prune removes items from: capped, cleared or popped
PrunableBuckets ==
    {"relevant_symbols", "similar_symbols", "types", "constants", "design_tokens"}

\* the buckets prune can empty: cleared or popped
EmptiedBuckets == {"relevant_symbols", "similar_symbols", "constants", "design_tokens"}

\* C24 (as stated): after prune either the estimated usage of the result is
\* within the budget or every prunable bucket is empty.
C24_PruneConverges ==
    shrinkPc = "done" =>
        \/ CalculateUsage(context) <= tokenBudget
        \/ \A b \in PrunableBuckets : context[b] = <<>>

\* C24 (amended): after prune either the estimated usage of the result is
\* within the budget, or the relevant, similar, constant and design-token
\* buckets are all empty; types (at most capped) and schemas (never touched)
\* may be left non-empty and over the budget.
C24_PruneConvergesOrEmpties ==
    shrinkPc = "done" =>
        \/ CalculateUsage(context) <= tokenBudget
        \/ \A b \in EmptiedBuckets : context[b] = <<>>

\* two relevant symbols popped and a constant cleared; the type keeps the
\* usage over the budget
C24_Witness ==
    /\ shrinkPc = "done"
    /\ tokenBudget = 1
    /\ Len(contextBefore.relevant_symbols) = 2
    /\ Len(contextBefore.types) = 1
    /\ context.relevant_symbols = <<>>
    /\ context.types = contextBefore.types
    /\ CalculateUsage(context) > tokenBudget

\* ------------------------------------------------------------------ C25..C28
\* every item of `after` occurs in `before` at least as often
SubCollection(after, before) ==
    \A i \in 1..Len(after) : Count(after[i], after) <= Count(after[i], before)

\* C25: every shrink stage (deduplicate, prune, audit) only removes items:
\* each category after the stage is a sub-collection of the category before
\* it, no item added or duplicated and no category longer than before.
C25_ShrinkOnlyRemoves ==
    /\ \A c \in DOMAIN gathered :
          /\ SubCollection(gathered[c], gatheredBefore[c])
          /\ Len(gathered[c]) <= Len(gatheredBefore[c])
    /\ shrinkPc = "done" =>
          \A b \in DOMAIN context :
              /\ SubCollection(context[b], contextBefore[b])
              /\ Len(context[b]) <= Len(contextBefore[b])

\* the combined count audit was called with is over its gate
OverGlobalGate == CombinedCount(gatheredBefore) > 12

\* category c is one audit asks the model about
Audited(c) == OverGlobalGate /\ Len(gatheredBefore[c]) > 8

\* C26: with a combined count of at most 12 audit makes no text-generation
\* call and changes no category; with more than 12, a category of at most 8
\* items is unchanged and gets no call, a category of more than 8 items gets
\* exactly one call.
C26_AuditGates ==
    \A c \in DOMAIN gathered :
        /\ ~Audited(c) => auditCalls[c] = 0 /\ gathered[c] = gatheredBefore[c]
        /\ Audited(c) => auditCalls[c] <= 1
        /\ Audited(c) /\ auditPc = "done" => auditCalls[c] = 1

\* audit has returned from a context over the global gate in which one
\* category is below its gate (no call) and another above it (one call)
C26_Witness ==
    /\ auditPc = "done"
    /\ OverGlobalGate
    /\ \E c, d \in DOMAIN gathered :
          /\ gatheredBefore[c] # <<>> /\ ~Audited(c) /\ auditCalls[c] = 0
          /\ Audited(d) /\ auditCalls[d] = 1
          /\ gathered[d] # gatheredBefore[d]

\* the reply of category c is not a JSON document
ReplyInvalidJson(c) ==
    /\ auditReplies[c].call = "ok"
    /\ \/ auditReplies[c].payload = NotJson
       \/ auditReplies[c].wrapper \notin JsonWrappers

\* the reply of category c is a JSON document with keep_indices = []
ReplyKeepsNothing(c) ==
    /\ auditReplies[c].call = "ok"
    /\ auditReplies[c].wrapper \in JsonWrappers
    /\ auditReplies[c].payload = JObj([keep_indices |-> JArr(<<>>)])

\* C27: a category whose audit reply is invalid JSON or carries
\* keep_indices = [] keeps its items and their order, and audit never turns
\* a non-empty category into an empty one.
C27_AuditFailOpen ==
    \A c \in DOMAIN gathered :
        /\ ReplyInvalidJson(c) \/ ReplyKeepsNothing(c) =>
               gathered[c] = gatheredBefore[c]
        /\ gatheredBefore[c] # <<>> => gathered[c] # <<>>

\* audit has returned after one reply that is not JSON, one with
\* keep_indices = [] and one whose only index is out of range
C27_Witness ==
    /\ auditPc = "done"
    /\ \E c, d, e \in DOMAIN gathered :
          /\ ReplyInvalidJson(c)
          /\ ReplyKeepsNothing(d)
          /\ auditReplies[e].call = "ok"
          /\ auditReplies[e].payload =
                 JObj([keep_indices |-> JArr(<<JNum(MaxAuditItems)>>)])

\* C28: audit never returns an error; a failed call or a reply that does
\* not decode leaves its category untouched, and the categories are gone
\* through in the order components, helpers, types, schemas, every one of
\* them whatever happened to the ones before.
C28_CategoriesIndependent ==
    /\ auditReturn # "Err"
    /\ auditPc = "done" => auditReturn = "Ok"
    /\ \A c \in DOMAIN gathered :
          auditResults[c] = "err" => gathered[c] = gatheredBefore[c]
    /\ \A i, j \in 1..Len(AuditCategories) :
          i < j /\ auditResults[AuditCategories[j]] # "none" =>
              auditResults[AuditCategories[i]] # "none"
    /\ auditPc = "done" /\ OverGlobalGate =>
          \A c \in DOMAIN gathered : auditResults[c] # "none"

\* audit has returned Ok after the call for components failed, the reply
\* for helpers did not decode and the reply for types was applied
C28_Witness ==
    /\ auditPc = "done"
    /\ auditReturn = "Ok"
    /\ auditReplies["components"] = FailedReply
    /\ auditReplies["helpers"].call = "ok"
    /\ auditResults["helpers"] = "err"
    /\ auditResults["types"] = "ok"
    /\ gathered["types"] # gatheredBefore["types"]

\* ------------------------------------------------------------------ C29
\* C29: a call whose every attempt fails makes max_retries + 1 = 6 attempts
\* whatever the failures are, sleeps 5 times and returns the error of the
\* last attempt with no sleep after it; a success returns at once, with no
\* sleep and no attempt after it.
C29_RetryCeiling ==
    /\ apiCalls <= 5 + 1
    /\ ~ENABLED CallFallThrough
    /\ callPc # "done" => callResult = NoCallResult
    /\ callPc = "done" =>
          /\ callResult.returned
          /\ ~ENABLED NextRetry
          /\ ~callResult.ok =>
                 /\ apiCalls = 5 + 1
                 /\ Len(sleeps) = 5
                 /\ callResult.error = lastError
          /\ callResult.ok => apiCalls = Len(sleeps) + 1

\* the call has returned an error after failures of every class: transport,
\* 4xx, 5xx, a body that is not JSON, a body without text
C29_Witness ==
    /\ callPc = "done"
    /\ ~callResult.ok
    /\ apiCalls = 6
    /\ {e.message : e \in callErrors} =
           {"Failed to send request to Gemini API", "Gemini API error",
            "Gemini API server error", "Failed to parse Gemini API response",
            "Failed to extract text from Gemini response"}

\* the call has returned the text of its third attempt
C29_WitnessSuccess ==
    /\ callPc = "done"
    /\ callResult.ok
    /\ apiCalls = 3
    /\ Len(sleeps) = 2

\* ------------------------------------------------------------------ C30
\* build_execution_plan as a function of the registry and the input ids:
\* the passes of its loop, one after the other
RECURSIVE PlanPasses(_, _)
PlanPasses(reg, st) ==
    IF st.kept = <<>> THEN st.order ELSE PlanPasses(reg, LoopPass(reg, st))

BuildExecutionPlan(reg, ids) ==
    PlanPasses(reg, [order |-> <<>>, processed |-> {},
                     progressed |-> FALSE, kept |-> ids])

\* the registry with every declared dependency that is not among ids removed
WithoutOutsideDeps(reg, ids) ==
    [k \in DOMAIN reg |->
        [reg[k] EXCEPT !.dependencies = @ \cap Elems(ids)]]

\* C30: a worker whose declared dependency is not among the input ids is
\* scheduled as if it did not have that dependency: build_execution_plan
\* returns the order it would return with the dependency removed from the
\* worker's declared dependencies.
C30_OutsideDependencyIrrelevant ==
    bepPc = "done" =>
        executionOrder =
            BuildExecutionPlan(WithoutOutsideDeps(registry, workerIds), workerIds)

\* ------------------------------------------------------------------ C31
\* a is b with some of its places struck out
RECURSIVE IsSubsequence(_, _)
IsSubsequence(a, b) ==
    IF a = <<>> THEN TRUE
    ELSE IF b = <<>> THEN FALSE
    ELSE IF Head(a) = Head(b) THEN IsSubsequence(Tail(a), Tail(b))
    ELSE IsSubsequence(a, Tail(b))

\* C31: a pass that removes no id appends every id still remaining to the
\* schedule, in their relative input order, behind the ids scheduled by the
\* earlier passes, and the loop stops.
C31_DrainTail ==
    /\ [](IsSubsequence(remaining, workerIds))
    /\ [][(bepPc = "loop" /\ passes' = passes + 1 /\ ~progressed') =>
             /\ executionOrder' = executionOrder \o remaining
             /\ remaining' = <<>>]_vars
    /\ [][bepPc = "done" => UNCHANGED executionOrder]_vars

\* the first pass scheduled B, the second removed no id and appended the
\* remaining A and C behind it
C31_Witness ==
    /\ bepPc = "done"
    /\ ~progressed
    /\ passes = 2
    /\ workerIds = <<"A", "B", "C">>
    /\ executionOrder = <<"B", "A", "C">>

\* ------------------------------------------------------------------ C32
\* C32: verification is only invoked on a non-empty result set; when a
\* search returns nothing and attempts remain, the loop makes one
\* reformulation call and goes to the next search with no verify call; every
\* QuestionAnswer produced carries at least one symbol.
C32_VerifyOnlyNonEmpty ==
    /\ [](loopPc = "verify" => searchResults # <<>>)
    /\ [](\A i \in 1..Len(answers) : answers[i].symbols # <<>>)
    /\ [](outcome.kind \in {"Found", "PartiallyFound"} =>
              \A i \in 1..Len(outcome.answers) : outcome.answers[i].symbols # <<>>)
    /\ [][verifyCalls' > verifyCalls => searchResults # <<>>]_vars
    /\ [][(loopPc = "search" /\ searchResults' = <<>> /\ attempt < max_retries - 1) =>
             loopPc' = "reformulate"]_vars
    /\ [][(loopPc = "reformulate" /\ searchResults = <<>>) =>
             /\ verifyCalls' = verifyCalls
             /\ reformulateCalls' = reformulateCalls + 1
             /\ loopPc' \in {"search", "returned"}]_vars

\* the first search found nothing, the question was reformulated without a
\* verify call, the second search found a symbol and its verification Found
C32_Witness ==
    /\ loopPc = "returned"
    /\ searchCalls = 2
    /\ reformulateCalls = 1
    /\ verifyCalls = 1
    /\ outcome.kind = "Found"
    /\ outcome.answers[1].symbols # <<>>

\* ------------------------------------------------------------------ C33, C34
\* C33: after deduplicate the similar bucket holds no two items of the same
\* (name, file_path).
C33_SimilarDeduplicated ==
    dedupRuns >= 1 =>
        \A i, j \in 1..Len(context.similar_symbols) :
            i # j => PairOf("similar_symbols", context.similar_symbols[i])
                         # PairOf("similar_symbols", context.similar_symbols[j])

\* the key pairs of the items of a bucket
PairsOf(bucket, items) == {PairOf(bucket, items[i]) : i \in 1..Len(items)}

\* C34: deduplicate takes two items of a bucket for duplicates only when both
\* components of their key pairs are equal: every key pair a bucket held
\* before is still held by an item after.
C34_DistinctPairsRetained ==
    dedupRuns = 1 =>
        \A bucket \in {"relevant_symbols", "types", "schemas", "constants"} :
            PairsOf(bucket, context[bucket]) = PairsOf(bucket, contextBefore[bucket])

\* ------------------------------------------------------------------ C35..C37
\* the context prune was called with, after its first and its second tier
AfterTestTier == RemoveTestFiles(contextBefore)
AfterCapTier == LimitItems(AfterTestTier)

\* prune went on to the tier: the usage was over the budget before it
ReachedTestTier == CalculateUsage(contextBefore) > tokenBudget
ReachedCapTier == ReachedTestTier /\ CalculateUsage(AfterTestTier) > tokenBudget
ReachedAggressiveTier == ReachedCapTier /\ CalculateUsage(AfterCapTier) > tokenBudget

\* C35: prune applies its tiers in order and stops at the first point where
\* the usage is within the budget: a context within budget is unchanged; if
\* the usage fits after the test-file removal no cap is applied; if it fits
\* after the cap nothing is cleared and nothing popped.
C35_TiersShortCircuit ==
    shrinkPc = "done" =>
        /\ ~ReachedTestTier => context = contextBefore
        /\ ReachedTestTier /\ ~ReachedCapTier =>
              /\ context = AfterTestTier
              /\ \A b \in {"types", "constants", "design_tokens", "schemas"} :
                    context[b] = contextBefore[b]
              /\ \A b \in {"relevant_symbols", "similar_symbols"} :
                    Len(context[b]) =
                        Cardinality({i \in 1..Len(contextBefore[b]) :
                                        ~IsTest(contextBefore[b][i].file_path)})
        /\ ReachedCapTier /\ ~ReachedAggressiveTier =>
              /\ context = AfterCapTier
              /\ \A b \in {"constants", "design_tokens", "schemas"} :
                    context[b] = contextBefore[b]
              /\ Len(context.similar_symbols) = Len(Truncate(AfterTestTier.similar_symbols, 10))
              /\ Len(context.relevant_symbols) = Len(Truncate(AfterTestTier.relevant_symbols, 10))

\* prune stopped after the test-file removal with a bucket of more than 10
\* items left uncapped
C35_Witness ==
    /\ shrinkPc = "done"
    /\ ReachedTestTier
    /\ ~ReachedCapTier
    /\ context # contextBefore
    /\ \E b \in DOMAIN context : Len(context[b]) > 10 /\ context # LimitItems(context)

\* prune stopped after the cap with the similar bucket not cleared
C35_WitnessCap ==
    /\ shrinkPc = "done"
    /\ ReachedCapTier
    /\ ~ReachedAggressiveTier
    /\ Len(contextBefore.similar_symbols) > 10
    /\ Len(context.similar_symbols) = 10

\* a is the first Len(a) items of b
IsPrefix(a, b) == Len(a) <= Len(b) /\ a = SubSeq(b, 1, Len(a))

\* C36: whenever prune reaches the cap tier, every category of the result
\* holds at most 10 items, and each capped category keeps its earliest items
\* in their order.
C36_EveryCategoryCapped ==
    (shrinkPc = "done" /\ ReachedCapTier) =>
        \A b \in DOMAIN context :
            /\ Len(context[b]) <= 10
            /\ IsPrefix(context[b], AfterTestTier[b])

\* the usage of the context left by the cap tier with the secondary buckets
\* cleared and the first n relevant symbols kept
UsageWithPrefix(n) ==
    CalculateUsage([AfterCapTier EXCEPT !.similar_symbols = <<>>,
                                        !.constants = <<>>,
                                        !.design_tokens = <<>>,
                                        !.relevant_symbols = SubSeq(@, 1, n)])

\* C37: when prune reaches the aggressive tier the similar, constant and
\* design-token buckets are emptied and relevant symbols are removed from
\* the end only, as few as bring the usage within the budget: the relevant
\* bucket left is the longest prefix of the one left by the earlier tiers
\* for which the usage is within the budget, empty if there is none.
C37_AggressiveLongestPrefix ==
    (shrinkPc = "done" /\ ReachedAggressiveTier) =>
        /\ context.similar_symbols = <<>>
        /\ context.constants = <<>>
        /\ context.design_tokens = <<>>
        /\ context.types = AfterCapTier.types
        /\ context.schemas = AfterCapTier.schemas
        /\ IsPrefix(context.relevant_symbols, AfterCapTier.relevant_symbols)
        /\ \A n \in (Len(context.relevant_symbols) + 1)..Len(AfterCapTier.relevant_symbols) :
              UsageWithPrefix(n) > tokenBudget
        /\ context.relevant_symbols # <<>> => CalculateUsage(context) <= tokenBudget

\* the aggressive tier cleared a constant and popped one of two relevant
\* symbols, which brought the usage within the budget
C37_Witness ==
    /\ shrinkPc = "done"
    /\ ReachedAggressiveTier
    /\ contextBefore.constants # <<>>
    /\ Len(AfterCapTier.relevant_symbols) = 2
    /\ Len(context.relevant_symbols) = 1
    /\ CalculateUsage(context) <= tokenBudget

\* ------------------------------------------------------------------ C38
\* the reply of category c has arrived and decodes to a keep_indices that is
\* not empty
DecodedKeep(c) ==
    IF auditReplies[c].call = "ok" /\ ParseDecision(auditReplies[c].content).ok
    THEN ParseDecision(auditReplies[c].content).v
    ELSE <<>>

\* the items of category c, as audit got it, at the indices (from 0) in range
\* among those of the reply, in the order of the reply
KeptInRange(c) ==
    LET in_range == SelectSeq(DecodedKeep(c), LAMBDA k : k < Len(gatheredBefore[c]))
    IN  [i \in 1..Len(in_range) |-> gatheredBefore[c][in_range[i] + 1]]

\* C38 (as stated): a category whose reply decodes to a non-empty
\* keep_indices afterwards holds only items whose index is in keep_indices,
\* and an index out of range causes no error.
C38_RetainsOnlyKept ==
    \A c \in DOMAIN gathered :
        DecodedKeep(c) # <<>> =>
            /\ auditResults[c] = "ok"
            /\ \A j \in 1..Len(gathered[c]) :
                  \E i \in 1..Len(DecodedKeep(c)) :
                      /\ DecodedKeep(c)[i] < Len(gatheredBefore[c])
                      /\ gathered[c][j] = gatheredBefore[c][DecodedKeep(c)[i] + 1]

\* C38 (amended): a category whose reply decodes to a non-empty keep_indices
\* afterwards holds the items at those of the indices that are in range, in
\* the order of the reply; when none of the indices is in range the category
\* is unchanged; an index out of range causes no error.
C38_RetainsKeptInRange ==
    \A c \in DOMAIN gathered :
        DecodedKeep(c) # <<>> =>
            /\ auditResults[c] = "ok"
            /\ gathered[c] =
                  IF KeptInRange(c) # <<>> THEN KeptInRange(c) ELSE gatheredBefore[c]

\* the reply for one category kept index 1 and an index out of range, and
\* the second item alone is left; the reply for another category had an
\* index out of range only, and the category is unchanged
C38_Witness ==
    /\ auditPc = "done"
    /\ \E c, d \in DOMAIN gathered :
          /\ DecodedKeep(c) = <<1, MaxAuditItems>>
          /\ gathered[c] = <<gatheredBefore[c][2]>>
          /\ DecodedKeep(d) = <<MaxAuditItems>>
          /\ gathered[d] = gatheredBefore[d]
          /\ gatheredBefore[d] # <<>>

\* ------------------------------------------------------------------ C39
\* the least delay before retry k with the defaults, in ms
LeastDelays == <<2000, 4000, 8000, 16000, 32000>>

\* C39: the delay slept before retry k is base_delay * 2^(k-1) plus a jitter
\* of 0 to 999 ms: with the defaults the delays lie in [2 s, 3 s), [4 s, 5 s),
\* [8 s, 9 s), [16 s, 17 s), [32 s, 33 s) and grow from each retry to the next.
C39_BackoffSchedule ==
    /\ Len(sleeps) <= Len(LeastDelays)
    /\ \A k \in 1..Len(sleeps) :
          /\ sleeps[k] >= LeastDelays[k]
          /\ sleeps[k] < LeastDelays[k] + 1000
    /\ \A k \in 2..Len(sleeps) : sleeps[k - 1] < sleeps[k]
    /\ callPc = "sleep" => sleeps[Len(sleeps)] = LeastDelays[Len(sleeps)] + callJitter
    /\ callJitter \in 0..999

\* all five retries were slept for, the first with the greatest jitter and
\* the last with none
C39_Witness ==
    /\ Len(sleeps) = 5
    /\ sleeps[1] = 2999
    /\ sleeps[5] = 32000

\* ------------------------------------------------------------------ C40
\* the verification reply of the current attempt is a JSON document, fenced
\* or not, that carries is_correct = false
ReplySaysIncorrect ==
    /\ verifyReply.call = "ok"
    /\ verifyReply.wrapper \in JsonWrappers
    /\ HasMember(verifyReply.payload, "is_correct")
    /\ verifyReply.payload.m.is_correct = JBool(FALSE)

\* C40: an attempt whose verification reply is JSON carrying
\* is_correct = false never ends in Found, whatever other members the reply
\* has or lacks: the loop reformulates, or on the final attempt returns
\* PartiallyFound.
C40_IncorrectNeverFound ==
    ReplySaysIncorrect =>
        /\ outcome.kind # "Found"
        /\ \/ loopPc = "reformulate"
           \/ loopPc = "returned" /\ outcome.kind \in {"PartiallyFound", "Err"}

====
